---- MODULE Spec2Model ----
(***************************************************************************)
(* A model of rrecycle (rrc): the recursive file-tree operation engine     *)
(* (lib/lib.rs, lib/files.rs), the delete / shred / search operations and  *)
(* the restore loop (operations.rs, lib/util.rs), and the zero-fill        *)
(* overwrite (lib/files.rs).                                               *)
(*                                                                         *)
(* Three specifications share the module:                                  *)
(*   Spec          a delete / shred / search batch over a directory tree   *)
(*   SpecOverwrite overwrite_file applied to one file                      *)
(*   SpecRestore   RestoreOperation::operate against a trash bin           *)
(***************************************************************************)
EXTENDS Naturals, Integers, Sequences, FiniteSets, TLC

VARIABLES
    \* ---- a delete / shred / search batch (Spec)
    fs0,        \* the directory tree before the batch: path -> none | file | dir
    fs,         \* the directory tree now
    fdata,      \* the bytes of every file: path -> [len, nz]
    op,         \* the operation: [kind, num_runs, sop, target]
    recurse_default,    \* the -R flag
    pc,         \* where the batch is: start | batch | dir | ret | done
    paths,      \* recurse_on_paths: the roots handed over
    recurse,    \* recurse_on_paths: the recurse argument
    idx,        \* recurse_on_paths: the root the for loop is at
    counter,    \* recurse_on_paths: counter
    stack,      \* the open calls of run_op_on_dir_recursive, innermost last
    retv,       \* the value the last finished call returned: [count, completed]
    operate_curr_file,  \* SearchOperation.operate_curr_file
    result,     \* what recurse_on_paths returned, and operate after it:
                \* [tag, count, file, ferr, site, operate]
    events,     \* history: every display_cb / cb call, in order
    rets,       \* history: every return of run_op_on_dir_recursive
    stops,      \* history: every execute_callbacks that returned Ok(false)
    err_at,     \* history: Len(events) when an Err left the batch, else -1
    warned,     \* history: the paths print_no_file_warn was called with
    prompted,   \* history: the prompt_recursion calls: [path, answer]
    \* ---- overwrite_file applied to one file (SpecOverwrite)
    ow_in,      \* the call: [file, runs, oracle], or the idle value
    ow_out,     \* what the call returned and left on disk, or the idle value
    \* ---- RestoreOperation::operate (SpecRestore)
    trash,      \* the trash bin: the ids of the items in it
    occupied,   \* the original paths at which something exists
    requested,  \* the names given on the command line
    items,      \* operate: items, the pending Vec<TrashItem>
    rpc,        \* where operate is: start | loop | attempt | done
    snap,       \* attempt_restore: files.clone(), the list the for loop walks
    spos,       \* attempt_restore: the position of the for loop in snap
    len_before_attempt, \* operate: len_before_attempt
    passes,     \* history: the calls of attempt_restore so far
    init_len,   \* history: the length of items before the first pass
    rlog,       \* history: every restore_all / purge_all call: [item, res, pass,
                \* before (the pending items at the call), report]
    rwarned,    \* history: the names print_no_file_warn was called with
    rresult,    \* what operate or purge returned: [tag, count, err, operation]
    all_files   \* purge: the all_files argument (false until purge is called)

tvars == <<fs0, fs, fdata, op, recurse_default, pc, paths, recurse, idx, counter,
           stack, retv, operate_curr_file, result, events, rets, stops,
           err_at, warned, prompted>>
ovars == <<ow_in, ow_out>>
rvars == <<trash, occupied, requested, items, rpc, snap, spos, len_before_attempt,
           passes, init_len, rlog, rwarned, rresult, all_files>>
vars == <<tvars, ovars, rvars>>

Max(a, b) == IF a >= b THEN a ELSE b
Min(a, b) == IF a <= b THEN a ELSE b

(***************************************************************************)
(* Bounds of the model.                                                    *)
(***************************************************************************)
\* overwrite passes tried: run counts 0..MaxRuns
MaxRuns == 2

\* the short writes followed: of a write from the buffer the multiples of
\* FlushGrain bytes, of a write made past the buffer those of DirectGrain
FlushGrain == 1000
DirectGrain == 100000

\* the size a file can grow to: a write that would pass it writes up to it
\* and fails (EFBIG, ENOSPC)
FSizeLimit == 6000000
\* the paths of the directory tree: the first MaxNodes entries of ParentTable
MaxNodes == 6
\* the trash items there are: the first MaxItems entries of ItemTable
MaxItems == 3
\* the names a restore is asked for: at most MaxReq
MaxReq == 2
\* the passes of the restore loop that are followed
MaxPasses == 4

(***************************************************************************)
(* Files on disk.  An open file is [isdir, len, nz, append]: nz is the set  *)
(* of half-open byte ranges <<lo, hi>> that hold non-zero bytes; every     *)
(* other byte below len is 0x00; append says the handle was opened with    *)
(* OpenOptions::append(true), so that every write lands at the end of the  *)
(* file.  This keeps the real sizes (10^6-byte buffer) checkable.          *)
(***************************************************************************)
OnesFile(L) == [isdir |-> FALSE, len |-> L,
                nz |-> IF L > 0 THEN {<<0, L>>} ELSE {}, append |-> FALSE]

\* the same file through a handle opened for appending
AppendHandle(file) == [file EXCEPT !.append = TRUE]

DirHandle == [isdir |-> TRUE, len |-> 0, nz |-> {}, append |-> FALSE]

\* what is left of the non-zero range iv once [a, b) has been zeroed
Pieces(iv, a, b) ==
    {p \in {<<iv[1], Min(iv[2], a)>>, <<Max(iv[1], b), iv[2]>>} : p[1] < p[2]}

\* File::write_all of n zero bytes at offset off
WriteZeros(nz, off, n) ==
    IF n = 0 THEN nz ELSE UNION {Pieces(iv, off, off + n) : iv \in nz}

(***************************************************************************)
(* overwrite_file (lib/files.rs).  The I/O steps of a call are numbered as *)
(* they happen; the oracle o = [failAt, later, short, again, overflow]      *)
(* says which of them fail: step failAt (0: none) and, when later is set,  *)
(* every step after it; a write that fails at step failAt has written      *)
(* short of its bytes before (write(2) returned short, the next call the   *)
(* error), a write that fails later again of its bytes; and overflow says  *)
(* what the build makes of a u64 subtraction that overflows.               *)
(* The writer state s is [st, nz, len, pos, buffered, k, pass, log,        *)
(* append].                                                                *)
(* log keeps every call that went through, [pass, off, n, how, buf, step]: *)
(*   how = "write_all"    writer.write_all of n bytes at offset off        *)
(*   how = "flush"        n buffered bytes written to the file at off      *)
(*   how = "direct"       n bytes written to the file at off, unbuffered   *)
(*   how = "seek_start"   the file's seek(Start(0)), off the new position  *)
(*   how = "seek_current" the file's seek(Current(0))                      *)
(* buf, the bytes held in the buffer when the call was made, and step,     *)
(* the I/O step the call is (for a write_all: the step its bytes would     *)
(* next take).                                                             *)
(***************************************************************************)
OW_BUFF_SIZE == 10^6

\* std::io::BufWriter::new: DEFAULT_BUF_SIZE
BUF_CAPACITY == 8 * 1024

Fails(o, k) == k = o.failAt \/ (o.later /\ o.failAt > 0 /\ k > o.failAt)

\* the log with one more call
Logged(s, off, n, how) ==
    [s EXCEPT !.log = Append(@, [pass |-> s.pass, off |-> off, n |-> n,
                                 how |-> how, buf |-> s.buffered,
                                 step |-> s.k + 1])]

\* where write(2) puts the bytes: at the cursor, or at the end of the file
\* when the handle was opened for appending (O_APPEND)
WriteOffset(s) == IF s.append THEN s.len ELSE s.pos

\* the bytes reach the file: write(2) of n bytes, the cursor after them
InnerWrite(s, n, how) ==
    [Logged(s, WriteOffset(s), n, how)
        EXCEPT !.nz = WriteZeros(@, WriteOffset(s), n),
               !.len = IF n = 0 THEN @ ELSE Max(@, WriteOffset(s) + n),
               !.pos = WriteOffset(s) + n]

\* the grain of the short writes of n bytes: what the buffer held is less
\* than its capacity, what is written past it at least that
ShortGrain(n) == IF n < BUF_CAPACITY THEN FlushGrain ELSE DirectGrain

\* the counts followed for a failing write of n bytes: write(2) may have
\* written any count below n before the error; followed are none, one, half
\* of them, all but one, and every multiple of the grain below n
ShortCounts(n) ==
    IF n = 0 THEN {0}
    ELSE {0, Min(1, n - 1), n \div 2, n - 1}
         \cup {j * ShortGrain(n) : j \in 0..((n - 1) \div ShortGrain(n))}

\* how many of its n bytes the write that fails at step k has written before
\* the error: the oracle's count for the first failing step, its other
\* count for a write that fails after it
ShortWrite(o, k, n) == Min(IF k = o.failAt THEN o.short ELSE o.again, n - 1)

\* the bytes of a write_all loop of n bytes that reach the file: all of them,
\* fewer when a write fails, and never more than the file may grow by
Reaches(s, o, n) ==
    Min(IF Fails(o, s.k + 1) THEN ShortWrite(o, s.k + 1, n) ELSE n,
        FSizeLimit - WriteOffset(s))

\* a write_all loop of n bytes: what reached the file is written
PartWrite(s, o, n, how) ==
    IF Reaches(s, o, n) = 0 THEN s ELSE InnerWrite(s, Reaches(s, o, n), how)

\* File::write_all of n bytes, one I/O step: Err unless all n were written
FileWriteAll(s, o, n, how) ==
    [PartWrite(s, o, n, how)
        EXCEPT !.k = @ + 1, !.st = IF Reaches(s, o, n) = n THEN @ ELSE "err"]

\* BufWriter::flush_buf: the buffered bytes go to the file; on an error the
\* bytes not yet written stay buffered (BufGuard)
FlushBuf(s, o) ==
    IF s.buffered = 0 THEN s
    ELSE [FileWriteAll(s, o, s.buffered, "flush")
             EXCEPT !.buffered = @ - Reaches(s, o, s.buffered)]

\* the file's own seek, once flush_buf has returned (target < 0: Current(0))
InnerSeek(f, o, target) ==
    IF f.st # "run" THEN f
    ELSE IF Fails(o, f.k + 1) THEN [f EXCEPT !.k = @ + 1, !.st = "err"]
    ELSE [Logged(f, IF target < 0 THEN f.pos ELSE target, 0,
                 IF target < 0 THEN "seek_current" ELSE "seek_start")
             EXCEPT !.k = @ + 1, !.pos = IF target < 0 THEN @ ELSE target]

\* a seek that leaves the buffered bytes where they are
BufSeekMutant(s, o, target) == InnerSeek(s, o, target)

\* BufWriter::seek: flush_buf()?, then the file's seek
BufSeek(s, o, target) == InnerSeek(FlushBuf(s, o), o, target)

\* BufWriter::write_all_cold, after its flush_buf: written through with
\* File::write_all when the bytes are at least the capacity (an error
\* leaves what was written before it), buffered otherwise
WriteCold(f, o, n) ==
    IF f.st # "run" THEN f
    ELSE IF n >= BUF_CAPACITY THEN FileWriteAll(f, o, n, "direct")
    ELSE [f EXCEPT !.buffered = @ + n]

\* BufWriter::write_all once the call is logged: buffered when it fits in the
\* spare capacity
BufWrite(s, o, n) ==
    IF n < BUF_CAPACITY - s.buffered THEN [s EXCEPT !.buffered = @ + n]
    ELSE WriteCold(IF n > BUF_CAPACITY - s.buffered THEN FlushBuf(s, o) ELSE s, o, n)

\* writer.write_all of n zero bytes, at the writer's offset
BufWriteAll(s, o, n) == BufWrite(Logged(s, s.pos + s.buffered, n, "write_all"), o, n)

\* the size of the last write of a pass (lib/files.rs:116)
LastChunk(file_len, offset) == file_len - offset

RECURSIVE OwLoop(_, _, _)

\* after a full buffer was written: `?`, then the next iteration
OwLoopNext(w, o, file_len) ==
    IF w.st # "run" THEN w ELSE OwLoop(w, o, file_len)

\* what a build makes of `file_len - offset` (u64) when offset > file_len:
\* a panic with overflow checks (debug), 2^64 - (offset - file_len) without
\* (release)
Overflows == {"panic", "wrap"}

\* one iteration once the offset is known (lib/files.rs:113-118); a is the
\* writer after seek(Current(0)), whose Err the unwrap turns into a panic.
\* With offset > file_len (a handle that appends) the subtraction overflows:
\* wrapped it is 2^64 - (offset - file_len), which no offset of a file brings
\* below OW_BUFF_SIZE, so a full buffer is written and the loop goes on.
OwLoopBody(a, o, file_len) ==
    IF a.st # "run" THEN [a EXCEPT !.st = "panic"]
    ELSE IF a.pos > file_len
         THEN IF o.overflow = "panic" THEN [a EXCEPT !.st = "panic"]
              ELSE OwLoopNext(BufWriteAll(a, o, OW_BUFF_SIZE), o, file_len)
    ELSE IF file_len - a.pos >= OW_BUFF_SIZE
         THEN OwLoopNext(BufWriteAll(a, o, OW_BUFF_SIZE), o, file_len)
         ELSE BufWriteAll(a, o, LastChunk(file_len, a.pos))

\* the inner loop of one pass (lib/files.rs:111-119)
OwLoop(s, o, file_len) == OwLoopBody(BufSeek(s, o, -1), o, file_len)

RECURSIVE OwRuns(_, _, _, _)

\* one pass once seek(Start(0)) has returned (lib/files.rs:107)
OwPass(a, o, file_len, left) ==
    IF a.st # "run" THEN a
    ELSE OwRuns(OwLoop(a, o, file_len), o, file_len, left - 1)

\* a loop that makes one pass when none is asked for
OwRunsMutant(s, o, file_len, left) ==
    IF s.st # "run" \/ (left = 0 /\ s.pass >= 1) THEN s
    ELSE OwPass(BufSeek([s EXCEPT !.pass = @ + 1], o, 0), o, file_len, Max(left, 1))

\* for _ in 0..runs (lib/files.rs:106-120)
OwRuns(s, o, file_len, left) ==
    IF left = 0 \/ s.st # "run" THEN s
    ELSE OwPass(BufSeek([s EXCEPT !.pass = @ + 1], o, 0), o, file_len, left)

\* the writer goes out of scope: BufWriter::drop flushes and ignores the result
BufDrop(s, o) ==
    [FlushBuf([s EXCEPT !.st = "run"], o) EXCEPT !.st = s.st]

\* the return: Ok(()) if the passes ran through, and the writer is dropped
OwReturn(r, o) ==
    [BufDrop(r, o) EXCEPT !.st = IF r.st = "run" THEN "ok" ELSE r.st]

\* the writer over a freshly opened file, after k I/O steps
Writer(file, k) ==
    [st |-> "run", nz |-> file.nz, len |-> file.len, pos |-> 0,
     buffered |-> 0, k |-> k, pass |-> 0, log |-> <<>>, append |-> file.append]

\* an overwrite_file without the test for a directory
OverwriteFileMutant(file, runs, o) ==
    IF Fails(o, 1) THEN [Writer(file, 1) EXCEPT !.st = "err"]
    ELSE IF Fails(o, 2) THEN [Writer(file, 2) EXCEPT !.st = "err"]
    ELSE OwReturn(OwRuns(Writer(file, 2), o, file.len, runs), o)

\* overwrite_file(file, runs): the result is the writer state at return, with
\* st = "ok" (Ok(())), "err" (an io::Error) or "panic" (the unwrap of line 112)
OverwriteFile(file, runs, o) ==
    IF Fails(o, 1) THEN [Writer(file, 1) EXCEPT !.st = "err"]
    ELSE IF Fails(o, 2) THEN [Writer(file, 2) EXCEPT !.st = "err"]
    ELSE IF file.isdir THEN [Writer(file, 2) EXCEPT !.st = "ok"]
    ELSE OwReturn(OwRuns(Writer(file, 2), o, file.len, runs), o)

(***************************************************************************)
(* The directory tree.  Paths are numbered; ParentTable gives the parent   *)
(* directory of each (0: a path given on the command line).                *)
(*      1 -+- 3 -+- 5          2 --- 6                                     *)
(*         |     +- 7                                                      *)
(*         +- 4                                                            *)
(*         +- 8                                                            *)
(***************************************************************************)
ParentTable == <<0, 0, 1, 1, 3, 2, 3, 1>>
Nodes == 1..MaxNodes
Parent(n) == ParentTable[n]
Children(n) == {c \in Nodes : Parent(c) = n}

RECURSIVE Ancestors(_)
Ancestors(n) == IF Parent(n) = 0 THEN {} ELSE {Parent(n)} \cup Ancestors(Parent(n))
Subtree(n) == {n} \cup {c \in Nodes : n \in Ancestors(c)}
RootOf(n) == IF Parent(n) = 0 THEN n ELSE CHOOSE r \in Ancestors(n) : Parent(r) = 0

\* the last component of each path (Path::file_name)
NameTable == << <<"a", "b">>, <<"c", "d">>, <<"a", "b", "c">>, <<"a", "x">>,
                <<"a", "b">>, <<"x", "y", "z">>, <<"b">>, <<"c", "d">> >>
Name(n) == NameTable[n]

\* the files given on the command line, in order
Inputs == <<1, 2>>

\* fs::read_dir(dir): the entries of dir
ReadDir(f, dir) == {c \in Children(dir) : f[c] # "none"}

FileLen(n) == 100 * n
FileOf(d, n) == [isdir |-> FALSE, len |-> d[n].len, nz |-> d[n].nz, append |-> FALSE]

\* fuzzy_search::distance::levenshtein
RECURSIVE levenshtein(_, _)
levenshtein(a, b) ==
    IF Len(a) = 0 THEN Len(b)
    ELSE IF Len(b) = 0 THEN Len(a)
    ELSE Min(Min(levenshtein(Tail(a), b) + 1, levenshtein(a, Tail(b)) + 1),
             levenshtein(Tail(a), Tail(b)) + (IF Head(a) = Head(b) THEN 0 ELSE 1))

(***************************************************************************)
(* The operations' callbacks (operations.rs).  Each returns the set of     *)
(* outcomes the environment (I/O failures, the user's answers) allows.     *)
(***************************************************************************)
\* files::remove_file_or_empty_dir(path): [ok, fs]
RemoveFileOrEmptyDir(f, p) ==
    {[ok |-> FALSE, fs |-> f]}
    \cup IF f[p] = "file" \/ (f[p] = "dir" /\ ReadDir(f, p) = {})
         THEN {[ok |-> TRUE, fs |-> [f EXCEPT ![p] = "none"]]}
         ELSE {}

\* no I/O step fails
NoFault == [failAt |-> 0, later |-> FALSE, short |-> 0, again |-> 0, overflow |-> "wrap"]

\* the I/O steps overwrite_file(file, runs) makes when none fails
IOSteps(file, runs) == OverwriteFile(file, runs, NoFault).k

\* the bytes of the one call a log holds, 0 when it holds none
LoggedSize(log) == IF log = <<>> THEN 0 ELSE log[1].n

\* the bytes step k of overwrite_file(file, runs) writes to the file when no
\* step before it fails (0: the step is no write), hows the kinds of write
\* asked about
WriteSize(file, runs, k, hows) ==
    LoggedSize(SelectSeq(OverwriteFile(file, runs, NoFault).log,
                         LAMBDA e : e.step = k /\ e.how \in hows))

\* step k fails, a write of n bytes of which flushed come from the buffer:
\* it has written c of them; and when the later steps fail too, the one
\* write there can be after it (the flush of the drop, of the bytes a failed
\* flush left in the buffer) has written a of its bytes
FailuresAt(k, n, flushed) ==
    UNION {{[failAt |-> k, later |-> FALSE, short |-> c, again |-> 0, overflow |-> v]
               : v \in Overflows}
           \cup {[failAt |-> k, later |-> TRUE, short |-> c, again |-> a, overflow |-> v]
                    : a \in ShortCounts(IF flushed > c THEN flushed - c ELSE 0),
                      v \in Overflows}
              : c \in ShortCounts(n)}

\* the ways step k of overwrite_file(file, runs) can fail
OraclesAt(file, runs, k) ==
    FailuresAt(k, WriteSize(file, runs, k, {"flush", "direct"}),
               WriteSize(file, runs, k, {"flush"}))

\* what can befall one call: nothing, or any of its steps fails; and either
\* build
Oracles(file, runs) ==
    {[NoFault EXCEPT !.overflow = v] : v \in Overflows}
    \cup UNION {OraclesAt(file, runs, k) : k \in 1..IOSteps(file, runs)}

\* the oracles of the overwrite_file calls made during a batch: the handles
\* of ShredOperation::cb and run_op_single are not opened for appending, so
\* no subtraction overflows and the build makes no difference
ShredOracles(file, runs) == {o \in Oracles(file, runs) : o.overflow = "wrap"}

\* a shred that removes the file whatever overwrite_file returned
ShredRemoveMutant(f, d, p, r) ==
    {[open |-> "ok", ow |-> r.st, rm |-> IF x.ok THEN "ok" ELSE "err", handle |-> "none",
      fs |-> x.fs, fdata |-> [d EXCEPT ![p] = [len |-> r.len, nz |-> r.nz]]]
        : x \in RemoveFileOrEmptyDir(f, p)}

\* a shred after overwrite_file returned r: the removal only if it was Ok
ShredRemove(f, d, p, r) ==
    IF r.st = "ok"
    THEN {[open |-> "ok", ow |-> "ok", rm |-> IF x.ok THEN "ok" ELSE "err",
           handle |-> "none", fs |-> x.fs, fdata |-> [d EXCEPT ![p] = [len |-> r.len, nz |-> r.nz]]]
             : x \in RemoveFileOrEmptyDir(f, p)}
    ELSE {[open |-> "ok", ow |-> r.st, rm |-> "skip", handle |-> "none", fs |-> f,
           fdata |-> [d EXCEPT ![p] = [len |-> r.len, nz |-> r.nz]]]}

\* The file part of a shred: OpenOptions::open, overwrite_file, then
\* remove_file_or_empty_dir, each only if the one before returned Ok
\* (ShredOperation::cb lines 349-357, SearchOperation::run_op_single lines
\* 411-420).  [open, ow, rm, fs, fdata]: how each step ended.
ShredFile(f, d, p, runs) ==
    {[open |-> "err", ow |-> "skip", rm |-> "skip", handle |-> "none", fs |-> f,
      fdata |-> d]}
    \cup IF f[p] # "file" THEN {}
         ELSE UNION {ShredRemove(f, d, p, OverwriteFile(FileOf(d, p), runs, o))
                        : o \in ShredOracles(FileOf(d, p), runs)}

\* only the removal (Delete; Shred of a directory)
RemoveOnly(f, d, p) ==
    {[open |-> "skip", ow |-> "skip", rm |-> IF x.ok THEN "ok" ELSE "err",
      handle |-> "none", fs |-> x.fs, fdata |-> d] : x \in RemoveFileOrEmptyDir(f, p)}

\* trash::delete_all([path]): the path and all below it leave the tree
\* (rm = "ok"), or the call fails (rm = "err")
TrashDelete(f, d, p) ==
    {[open |-> "skip", ow |-> "skip", rm |-> "err", handle |-> "none", fs |-> f,
      fdata |-> d]}
    \cup IF f[p] = "none" THEN {}
         ELSE {[open |-> "skip", ow |-> "skip", rm |-> "ok", handle |-> "none",
                fs |-> [n \in Nodes |-> IF n \in Subtree(p) THEN "none" ELSE f[n]],
                fdata |-> d]}

\* The handle `file` of a shred x, when remove_file_or_empty_dir runs or, if
\* it does not run, when the function is left: "none" if no file was opened.
\* The scope of `file` ends with the block it is declared in: the `if` block
\* of ShredOperation::cb (line 355), before the removal; the match arm of
\* run_op_single (line 420), after it.  A `?` that leaves drops it.
HandleAtRemove(scope, x) ==
    IF x.open # "ok" THEN "none"
    ELSE IF x.rm = "skip" THEN "closed"
    ELSE IF scope = "if" THEN "closed"
    ELSE "open"

\* how a callback's steps ended -> what cb returns
Failed(x) == x.open = "err" \/ x.ow = "err" \/ x.rm = "err"

\* DeleteOperation::cb
DeleteCb(f, d, p) ==
    {[res |-> IF Failed(x) THEN "err" ELSE "true", ocf |-> FALSE, x |-> x]
        : x \in RemoveOnly(f, d, p)}

\* ShredOperation::cb: the file part when !path.is_dir(), which also holds
\* for a directory whose stat fails (the open of the directory then fails)
ShredCb(f, d, p, runs) ==
    {[res |-> IF x.ow = "panic" THEN "panic" ELSE IF Failed(x) THEN "err" ELSE "true",
      ocf |-> FALSE, x |-> x]
        : x \in {[y EXCEPT !.handle = HandleAtRemove("if", y)]
                    : y \in ShredFile(f, d, p, runs)}
                \cup IF f[p] = "dir" THEN RemoveOnly(f, d, p) ELSE {}}

\* SearchOperation::run_op_single
RunOpSingle(f, d, p, sop) ==
    CASE sop = "d" -> RemoveOnly(f, d, p)
      [] sop = "s" -> {[y EXCEPT !.handle = HandleAtRemove("arm", y)]
                          : y \in ShredFile(f, d, p, 1)}
      [] sop = "t" -> TrashDelete(f, d, p)

NoOp(f, d) == [open |-> "skip", ow |-> "skip", rm |-> "skip", handle |-> "none",
               fs |-> f, fdata |-> d]

\* a cb that leaves operate_curr_file as it found it
SearchCbMutant(f, d, p, sop, ocf) ==
    IF ocf
    THEN {[res |-> IF x.ow = "panic" \/ (sop = "t" /\ x.rm = "err")
                   THEN "panic" ELSE "true",
           ocf |-> TRUE, x |-> x] : x \in RunOpSingle(f, d, p, sop)}
    ELSE {[res |-> "true", ocf |-> FALSE, x |-> NoOp(f, d)]}

\* run_op_single panicked: the unwrap of trash::delete_all, or overwrite_file's
SinglePanics(x, sop) == x.ow = "panic" \/ (sop = "t" /\ x.rm = "err")

\* SearchOperation::cb: the io::Result of run_op_single is dropped; only a
\* panic gets out, and it leaves before the flag is reset (line 433)
SearchCb(f, d, p, sop, ocf) ==
    IF ocf
    THEN {[res |-> IF SinglePanics(x, sop) THEN "panic" ELSE "true",
           ocf |-> SinglePanics(x, sop), x |-> x] : x \in RunOpSingle(f, d, p, sop)}
    ELSE {[res |-> "true", ocf |-> FALSE, x |-> NoOp(f, d)]}

\* output::prompt_search_operation: (act on this entry, continue the search)
PromptSearchOperation == BOOLEAN \X BOOLEAN

\* RecursiveCallback::cb of an implementor outside this crate (the trait is
\* public): Ok(true), Ok(false) or Err, the tree left alone
TraitCb(f, d, ocf) ==
    {[res |-> r, ocf |-> ocf, x |-> NoOp(f, d)] : r \in {"true", "false", "err"}}

\* what DisplayCb reports in sel when display_cb panicked
DisplayPanics == {"err", "noname"}

\* display_cb of the three operations (and of any other implementor):
\* [cont, ocf, sel], ocf the flag afterwards, sel what the prompt of a match
\* said about this entry ("act", "skip"; "none" when nothing was asked).
\* A display_cb that panics returns nothing: sel is "noname" when the path
\* has no file name (the unwrap of line 439) and "err" when the prompt
\* returned Err (the unwrap of lines 441-447)
DisplayCb(o, p, ocf) ==
    IF o.kind = "SEARCH" /\ o.nameless /\ p = o.directory
    THEN {[cont |-> FALSE, ocf |-> ocf, sel |-> "noname"]}
    ELSE IF o.kind = "SEARCH" /\ levenshtein(Name(p), o.target) <= 1
    THEN {[cont |-> sel[2], ocf |-> (sel[1] \/ ocf),
           sel |-> IF sel[1] THEN "act" ELSE "skip"] : sel \in PromptSearchOperation}
         \cup {[cont |-> FALSE, ocf |-> ocf, sel |-> "err"]}
    ELSE IF o.kind = "CALLBACK"
    THEN {[cont |-> b, ocf |-> ocf, sel |-> "none"] : b \in BOOLEAN}
    ELSE {[cont |-> TRUE, ocf |-> ocf, sel |-> "none"]}

\* cb of the three operations (and of any other implementor)
Cb(o, f, d, p, ocf) ==
    CASE o.kind = "DELETE" -> {[c EXCEPT !.ocf = ocf] : c \in DeleteCb(f, d, p)}
      [] o.kind = "SHRED" -> {[c EXCEPT !.ocf = ocf] : c \in ShredCb(f, d, p, o.num_runs)}
      [] o.kind = "SEARCH" -> SearchCb(f, d, p, o.sop, ocf)
      [] o.kind = "CALLBACK" -> TraitCb(f, d, ocf)

\* cb called before display_cb
CallbackEventsMutant(p, is_dir, x) ==
    IF x.sel \in DisplayPanics
    THEN << [kind |-> "notify", path |-> p, is_dir |-> is_dir,
             open |-> "skip", ow |-> "skip", rm |-> "skip", handle |-> "none",
             sel |-> x.sel, res |-> "panic"] >>
    ELSE
    << [kind |-> "act", path |-> p, is_dir |-> is_dir,
        open |-> x.open, ow |-> x.ow, rm |-> x.rm, handle |-> x.handle,
        sel |-> "none", res |-> x.cbres],
       [kind |-> "notify", path |-> p, is_dir |-> is_dir,
        open |-> "skip", ow |-> "skip", rm |-> "skip", handle |-> "none",
        sel |-> x.sel, res |-> IF x.cont THEN "true" ELSE "false"] >>

\* the calls execute_callbacks makes, in order (lib/lib.rs:15-16); a
\* display_cb that panics is the only call
CallbackEvents(p, is_dir, x) ==
    IF x.sel \in DisplayPanics
    THEN << [kind |-> "notify", path |-> p, is_dir |-> is_dir,
             open |-> "skip", ow |-> "skip", rm |-> "skip", handle |-> "none",
             sel |-> x.sel, res |-> "panic"] >>
    ELSE
    << [kind |-> "notify", path |-> p, is_dir |-> is_dir,
        open |-> "skip", ow |-> "skip", rm |-> "skip", handle |-> "none",
        sel |-> x.sel, res |-> IF x.cont THEN "true" ELSE "false"],
       [kind |-> "act", path |-> p, is_dir |-> is_dir,
        open |-> x.open, ow |-> x.ow, rm |-> x.rm, handle |-> x.handle,
        sel |-> "none", res |-> x.cbres] >>

\* an execute_callbacks that returns Ok(false) without calling cb when
\* display_cb said stop
ExecuteCallbacksMutant(p) ==
    UNION {IF dc.sel \in DisplayPanics
           THEN {[res |-> "panic", ocf |-> dc.ocf,
                  x |-> NoOp(fs, fdata) @@ [sel |-> dc.sel, cont |-> FALSE,
                                            cbres |-> "none"]]}
           ELSE IF dc.cont
           THEN {[c EXCEPT !.x = c.x @@ [sel |-> dc.sel, cont |-> dc.cont,
                                         cbres |-> c.res]]
                    : c \in Cb(op, fs, fdata, p, dc.ocf)}
           ELSE {[res |-> "false", ocf |-> dc.ocf,
                  x |-> NoOp(fs, fdata) @@ [sel |-> dc.sel, cont |-> FALSE,
                                            cbres |-> "true"]]}
            : dc \in DisplayCb(op, p, operate_curr_file)}

\* RecursiveCallback::execute_callbacks(path, is_dir) in the current state:
\* [res, ocf, x]; res is "true"/"false" (Ok), "err" (the FileErr of cb) or
\* "panic"; x carries what display_cb was told (sel) and returned (cont)
\* and what cb returned (cbres) next to what cb did; a display_cb that
\* panics unwinds before cb is called
ExecuteCallbacks(p) ==
    UNION {IF dc.sel \in DisplayPanics
           THEN {[res |-> "panic", ocf |-> dc.ocf,
                  x |-> NoOp(fs, fdata) @@ [sel |-> dc.sel, cont |-> FALSE,
                                            cbres |-> "none"]]}
           ELSE
           {[c EXCEPT !.res = IF c.res = "true" /\ ~dc.cont THEN "false" ELSE c.res,
                      !.x = c.x @@ [sel |-> dc.sel, cont |-> dc.cont,
                                    cbres |-> c.res]]
                : c \in Cb(op, fs, fdata, p, dc.ocf)}
            : dc \in DisplayCb(op, p, operate_curr_file)}

(***************************************************************************)
(* The trash bin and the vector helpers of lib/util.rs.                    *)
(***************************************************************************)
\* the items that can be in the trash: TrashItem {name, original path}; two
\* items are equal when they are the same item (TrashItem::eq compares ids)
ItemTable == << [name |-> "f", dest |-> 1], [name |-> "g", dest |-> 2],
                [name |-> "f", dest |-> 1], [name |-> "g", dest |-> 3] >>
ItemIds == 1..MaxItems
ItemNames == {"f", "g", "h"}
Dests == {ItemTable[i].dest : i \in ItemIds}

\* a removal that puts the needle back at the end
remove_from_vecMutant(vec, needle) == Append(vec, needle)

\* util::remove_from_vec
remove_from_vec(vec, needle) == SelectSeq(vec, LAMBDA v : v # needle)

\* util::count_occurences
count_occurences(vec, needle) == Cardinality({i \in 1..Len(vec) : vec[i] = needle})

\* a removal of the first occurrence that takes the others with it
remove_first_from_vecMutant(vec, needle) == SelectSeq(vec, LAMBDA v : v # needle)

\* util::remove_first_from_vec
remove_first_from_vec(vec, needle) ==
    IF \E i \in 1..Len(vec) : vec[i] = needle
    THEN LET pos == CHOOSE i \in 1..Len(vec) :
                        vec[i] = needle /\ \A j \in 1..(i - 1) : vec[j] # needle
         IN  SubSeq(vec, 1, pos - 1) \o SubSeq(vec, pos + 1, Len(vec))
    ELSE vec

\* util::handle_collision_item on a RestoreCollision: the while loop
RECURSIVE handle_collision_item(_, _)
handle_collision_item(files, item) ==
    IF count_occurences(files, item) > 1
    THEN handle_collision_item(remove_first_from_vec(files, item), item)
    ELSE files

\* a handler that takes every error for a collision
handle_collisionMutant(error, files, item) ==
    [ok |-> TRUE, err |-> "none", files |-> handle_collision_item(files, item)]

\* util::handle_collision_item(error, files, item): Ok(()) after the while
\* loop on a RestoreCollision, Err(error) with files untouched otherwise
handle_collision(error, files, item) ==
    IF error = "collision"
    THEN [ok |-> TRUE, err |-> "none", files |-> handle_collision_item(files, item)]
    ELSE [ok |-> FALSE, err |-> error, files |-> files]

\* what handle_collision_item and attempt_restore print about the error of
\* a restore_all call: the path of a RestoreCollision is matched with `_`
\* and nothing is written
CollisionReport(error, item) == <<>>

\* trash::os_limited::list() when it returns Ok: the items of the trash
TrashList(t) == SelectSeq([i \in ItemIds |-> i], LAMBDA i : i \in t)

\* select_from_trash, the for loop over os_limited::list(): the items whose
\* name is `name`, in the order of the list
TrashMatching(t, name) ==
    SelectSeq(TrashList(t), LAMBDA i : ItemTable[i].name = name)

\* a selection that wraps whatever the loop found in Some
select_from_trashMutant(t, name, listed) ==
    [panic |-> ~listed, some |-> listed,
     items |-> IF listed THEN TrashMatching(t, name) ELSE <<>>]

\* files::select_from_trash(name): an Option<Vec<TrashItem>>, None when the
\* loop found nothing; listed says whether os_limited::list() returned Ok,
\* and its unwrap panics when it did not (nothing is returned then)
select_from_trash(t, name, listed) ==
    IF ~listed
    THEN [panic |-> TRUE, some |-> FALSE, items |-> <<>>]
    ELSE IF TrashMatching(t, name) = <<>>
    THEN [panic |-> FALSE, some |-> FALSE, items |-> <<>>]
    ELSE [panic |-> FALSE, some |-> TRUE, items |-> TrashMatching(t, name)]

\* output::run_conflict_prompt(items): the only item, or the one the user
\* selects; the unwrap of file_conflict_prompt panics when the prompt fails
run_conflict_prompt(cands) ==
    IF Len(cands) = 1
    THEN {[panic |-> FALSE, item |-> cands[1]]}
    ELSE {[panic |-> FALSE, item |-> cands[c]] : c \in 1..Len(cands)}
         \cup {[panic |-> TRUE, item |-> 0]}

\* what get_existent_trash_items leaves when it panics at a name
ResolvePanic(why) == [panic |-> why, items |-> <<>>, warned |-> <<>>]

\* the outcome r of the later names, after d_cb was called with name
WithWarning(name, r) == [r EXCEPT !.warned = <<name>> \o @]

\* the outcome r of the later names, after s_cb returned item: the vector
\* is collected only when no later name panics
WithItem(item, r) ==
    IF r.panic # "none" THEN r ELSE [r EXCEPT !.items = <<item>> \o @]

\* a resolution that ends at the first name with no item
RECURSIVE get_existent_trash_itemsMutant(_, _)
get_existent_trash_itemsMutant(t, names) ==
    IF names = <<>> THEN {ResolvePanic("none")}
    ELSE {ResolvePanic("list")} \cup
         (IF ~select_from_trash(t, Head(names), TRUE).some
          THEN {WithWarning(Head(names), ResolvePanic("none"))}
          ELSE UNION {IF p.panic THEN {ResolvePanic("prompt")}
                      ELSE {WithItem(p.item, r) :
                               r \in get_existent_trash_itemsMutant(t, Tail(names))}
                        : p \in run_conflict_prompt(
                                   select_from_trash(t, Head(names), TRUE).items)})

\* files::get_existent_trash_items(names, run_conflict_prompt, warn): every
\* outcome the trash service and the user's selections can give, name by
\* name: [panic, items, warned]; panic is "none" when the vector `items` is
\* returned, "list" or "prompt" when the unwrap of select_from_trash or of
\* the prompt panicked; warned are the names d_cb was called with
RECURSIVE get_existent_trash_items(_, _)
get_existent_trash_items(t, names) ==
    IF names = <<>> THEN {ResolvePanic("none")}
    ELSE {ResolvePanic("list")} \cup
         (IF ~select_from_trash(t, Head(names), TRUE).some
          THEN {WithWarning(Head(names), r) :
                   r \in get_existent_trash_items(t, Tail(names))}
          ELSE UNION {IF p.panic THEN {ResolvePanic("prompt")}
                      ELSE {WithItem(p.item, r) :
                               r \in get_existent_trash_items(t, Tail(names))}
                        : p \in run_conflict_prompt(
                                   select_from_trash(t, Head(names), TRUE).items)})

\* the names get_existent_trash_items warns about when it returns
NoFileWarnings(t, names) ==
    SelectSeq(names, LAMBDA n : ~select_from_trash(t, n, TRUE).some)

\* trash::os_limited::restore_all([item]): Ok, RestoreCollision when the
\* original path is occupied, or another error
RestoreAll(t, occ, item) ==
    {"other"} \cup (IF item \notin t THEN {}
                    ELSE IF ItemTable[item].dest \in occ THEN {"collision"}
                    ELSE {"ok"})

(***************************************************************************)
(* RestoreOperation::operate and attempt_restore (operations.rs).          *)
(***************************************************************************)
\* what operate or purge returned: Ok with the number handed to
\* auto_finish, Err(OperationError::new(err, operation, None)), or a panic
\* (err then names the call whose unwrap panicked)
RestoreResult(tag, count, err, operation) ==
    [tag |-> tag, count |-> count, err |-> err, operation |-> operation]

NoRestoreResult == RestoreResult("none", 0, "none", "NONE")

RECURSIVE SeqsUpTo(_, _)
SeqsUpTo(S, n) ==
    IF n = 0 THEN {<<>>}
    ELSE SeqsUpTo(S, n - 1) \cup {Append(q, x) : q \in SeqsUpTo(S, n - 1), x \in S}

\* the state operate is called in
FreshRestore ==
    /\ trash \in SUBSET ItemIds
    /\ occupied \in SUBSET Dests
    /\ requested \in SeqsUpTo(ItemNames, MaxReq)
    /\ items = <<>>
    /\ rpc = "start"
    /\ snap = <<>>
    /\ spos = 1
    /\ len_before_attempt = 0
    /\ passes = 0
    /\ init_len = 0
    /\ rlog = <<>>
    /\ rwarned = <<>>
    /\ all_files = FALSE
    /\ rresult = NoRestoreResult

IdleRestore ==
    /\ trash = {}
    /\ occupied = {}
    /\ requested = <<>>
    /\ items = <<>>
    /\ rpc = "idle"
    /\ snap = <<>>
    /\ spos = 1
    /\ len_before_attempt = 0
    /\ passes = 0
    /\ init_len = 0
    /\ rlog = <<>>
    /\ rwarned = <<>>
    /\ all_files = FALSE
    /\ rresult = NoRestoreResult

(***************************************************************************)
(* The batch: DeleteOperation::operate / ShredOperation::operate /         *)
(* SearchOperation::operate, recurse_on_paths (lib/lib.rs) and             *)
(* run_op_on_dir_recursive (lib/files.rs), one step per I/O call.          *)
(***************************************************************************)
\* Path::exists and Path::is_dir answer false when the stat of the path
\* fails, whatever is there; statted: the paths whose stat succeeds in the
\* calls at hand
Exists(f, q, statted) == f[q] # "none" /\ q \in statted
IsDir(f, q, statted) == f[q] = "dir" /\ q \in statted

InputSet == {Inputs[i] : i \in 1..Len(Inputs)}

\* files::get_existent_paths: the paths for which exists() answers true
GetExistentPaths(f, input, statted) ==
    SelectSeq(input, LAMBDA q : Exists(f, q, statted))

\* the paths get_existent_paths calls d_cb (print_no_file_warn) with
NoFileWarnPaths(f, input, statted) ==
    SelectSeq(input, LAMBDA q : ~Exists(f, q, statted))

\* what prompt_recursion can return: Ok(true), Ok(false), Err
PromptAnswers == {"yes", "no", "err"}

\* check_recursion(paths, recurse_default); answer is what prompt_recursion
\* returns if it is asked, and is_ok_and(|v| v) what is made of it
CheckRecursion(f, ps, rd, answer, statted) ==
    IF ~rd /\ (\E i \in 1..Len(ps) : IsDir(f, ps[i], statted))
    THEN answer = "yes" ELSE rd

\* the prompt_recursion calls of check_recursion: one, for the first path
\* for which is_dir() answers true, and none when recurse_default is set
RecursionPrompts(f, ps, rd, answer, statted) ==
    IF ~rd /\ (\E i \in 1..Len(ps) : IsDir(f, ps[i], statted))
    THEN <<[path |-> ps[CHOOSE i \in 1..Len(ps) :
                          /\ IsDir(f, ps[i], statted)
                          /\ \A j \in 1..(i - 1) : ~IsDir(f, ps[j], statted)],
            answer |-> answer]>>
    ELSE <<>>

\* the operations; nameless: the directory of a search was given as a path
\* without a final component ("." or "ab/.."), for which Path::file_name
\* is None
Ops == {[kind |-> "DELETE", num_runs |-> 0, sop |-> "-", target |-> <<>>,
         directory |-> 0, nameless |-> FALSE]}
       \cup {[kind |-> "SHRED", num_runs |-> r, sop |-> "-", target |-> <<>>,
              directory |-> 0, nameless |-> FALSE] : r \in 0..MaxRuns}
       \cup {[kind |-> "SEARCH", num_runs |-> 1, sop |-> c, target |-> t,
              directory |-> 1, nameless |-> n] : c \in {"t", "d", "s"},
                                 t \in {<<"a", "b">>, <<"a", "b", "c">>,
                                        <<"x", "y">>},
                                 n \in BOOLEAN}
       \cup {[kind |-> "CALLBACK", num_runs |-> 0, sop |-> "-", target |-> <<>>,
              directory |-> 0, nameless |-> FALSE]}
       \cup {[kind |-> "TRASH", num_runs |-> 0, sop |-> "-", target |-> <<>>,
              directory |-> 0, nameless |-> FALSE]}

\* a tree: whatever exists below a root lies in a directory
Trees == {t \in [Nodes -> {"none", "file", "dir"}] :
            \A n \in Nodes : (t[n] # "none" /\ Parent(n) # 0) => t[Parent(n)] = "dir"}

\* a FileErr that names the root instead of the entry
FileErrMapMutant(error, path) == [source |-> error, file |-> RootOf(path)]

\* FileErr::map(error, path)
FileErrMap(error, path) == [source |-> error, file |-> path]

NoFileErr == [source |-> "none", file |-> 0]

\* OperationError::new(err, operation, file)
OperationErrorNew(err, operation, file) ==
    [err |-> err, operation |-> operation, file |-> file]

NoOperationError == OperationErrorNew(NoFileErr, "NONE", 0)

\* the io::Error a failed callback maps: that of the first step that failed
ErrStep(x) ==
    IF x.open = "err" THEN "open"
    ELSE IF x.ow = "err" THEN "overwrite"
    ELSE IF x.rm = "err" THEN "remove"
    ELSE "cb"

\* what operate does with what recurse_on_paths returned: [tag, report,
\* operr]; report is the count auto_finish prints, -1 when none is printed
NoOperate == [tag |-> "none", report |-> -1, operr |-> NoOperationError]

\* Ok(c): pb.auto_finish(c) in Delete and Shred, nothing in Search
OperateOk(o, c) ==
    IF o.kind = "CALLBACK" THEN NoOperate
    ELSE [tag |-> "ok", report |-> IF o.kind \in {"DELETE", "SHRED"} THEN c ELSE -1,
          operr |-> NoOperationError]

\* the OPERATION an operate function hands to OperationError::new: its own
\* for Delete and Shred, self.op for a search (SearchOperation::new lines
\* 380-385: the operation chosen with -c)
OperationOf(o) ==
    IF o.kind # "SEARCH" THEN o.kind
    ELSE CASE o.sop = "t" -> "TRASH"
           [] o.sop = "d" -> "DELETE"
           [] o.sop = "s" -> "SHRED"

\* Err(e): pb.finish(), then OperationError::new(Box::new(e), op, Some(e.file))
OperateErr(o, e) ==
    IF o.kind = "CALLBACK" THEN NoOperate
    ELSE [tag |-> "err", report |-> -1,
          operr |-> OperationErrorNew(e, OperationOf(o), e.file)]

NoSite == [path |-> 0, step |-> "none"]

NoResult == [tag |-> "none", count |-> 0, file |-> 0, ferr |-> NoFileErr,
             site |-> NoSite, operate |-> NoOperate]

InitTraverse ==
    /\ fs0 \in Trees
    /\ fs = fs0
    /\ fdata = [n \in Nodes |-> IF fs0[n] = "file"
                                THEN [len |-> FileLen(n), nz |-> {<<0, FileLen(n)>>}]
                                ELSE [len |-> 0, nz |-> {}]]
    /\ op \in Ops
    /\ recurse_default \in (IF op.kind \in {"SEARCH", "TRASH"} THEN {FALSE} ELSE BOOLEAN)
    /\ pc = "start"
    /\ paths = <<>>
    /\ recurse = FALSE
    /\ idx = 1
    /\ counter = 0
    /\ stack = <<>>
    /\ retv = [count |-> 0, completed |-> TRUE]
    /\ operate_curr_file = FALSE
    /\ result = NoResult
    /\ events = <<>>
    /\ rets = <<>>
    /\ stops = <<>>
    /\ err_at = -1
    /\ warned = <<>>
    /\ prompted = <<>>

IdleTraverse ==
    /\ fs0 = [n \in Nodes |-> "none"]
    /\ fs = fs0
    /\ fdata = [n \in Nodes |-> [len |-> 0, nz |-> {}]]
    /\ op = [kind |-> "NONE"]
    /\ recurse_default = FALSE
    /\ pc = "idle"
    /\ paths = <<>>
    /\ recurse = FALSE
    /\ idx = 1
    /\ counter = 0
    /\ stack = <<>>
    /\ retv = [count |-> 0, completed |-> TRUE]
    /\ operate_curr_file = FALSE
    /\ result = NoResult
    /\ events = <<>>
    /\ rets = <<>>
    /\ stops = <<>>
    /\ err_at = -1
    /\ warned = <<>>
    /\ prompted = <<>>

IdleOverwrite == ow_in = [st |-> "idle"] /\ ow_out = [st |-> "idle"]

Top == stack[Len(stack)]
Pop(st) == SubSeq(st, 1, Len(st) - 1)
SetTop(st, fr) == [st EXCEPT ![Len(st)] = fr]

\* a call of run_op_on_dir_recursive(dir, count) that got past read_dir
Frame(dir, count) ==
    [dir |-> dir, todo |-> ReadDir(fs, dir), count |-> count, count0 |-> count,
     start |-> Len(events)]

\* the record of a return Ok((count, completed)) of the call fr
RetOf(fr, count, completed, at) ==
    [dir |-> fr.dir, count0 |-> fr.count0, count |-> count,
     completed |-> completed, start |-> fr.start, at |-> at]

\* what an execute_callbacks outcome leaves behind
Effects(p, is_dir, in_dir, o) ==
    /\ fs' = o.x.fs
    /\ fdata' = o.x.fdata
    /\ operate_curr_file' = o.ocf
    /\ events' = events \o CallbackEvents(p, is_dir, o.x)
    /\ stops' = IF o.res = "false"
                THEN Append(stops, [path |-> p, root |-> RootOf(p),
                                    in_dir |-> in_dir, at |-> Len(events) + 2])
                ELSE stops

\* an Err that is dropped: the for loop of recurse_on_paths goes on
AfterErrMutant == "batch"

\* where an Err leaves recurse_on_paths: `?` and `return Err(e)` end it
\* (lib/lib.rs:67-69, 72; lib/files.rs:39-56)
AfterErr == "done"

\* what recurse_on_paths and operate return on the Err of `step` at `file`
ErrResult(o, file, step) ==
    [tag |-> "err", count |-> 0, file |-> file, ferr |-> FileErrMap(step, file),
     site |-> [path |-> file, step |-> step],
     operate |-> OperateErr(o, FileErrMap(step, file))]

\* a panic unwinds through recurse_on_paths and operate
PanicResult(file) ==
    [tag |-> "panic", count |-> 0, file |-> file, ferr |-> NoFileErr,
     site |-> [path |-> file, step |-> "panic"],
     operate |-> [NoOperate EXCEPT !.tag = "panic"]]

\* an error (FileErr with its file) or a panic leaves the batch; step is the
\* call whose io::Error it was
Abort(tag, file, step, at) ==
    /\ pc' = IF tag = "err" THEN AfterErr ELSE "done"
    /\ result' = IF tag = "err" THEN ErrResult(op, file, step) ELSE PanicResult(file)
    /\ err_at' = IF tag = "err" THEN at ELSE err_at

\* the operate functions up to the call of recurse_on_paths (a caller of
\* the library hands over its own paths and flag)
Operate ==
    /\ pc = "start"
    /\ IF op.kind = "SEARCH"
       THEN /\ paths' = <<op.directory>> /\ recurse' = TRUE
            /\ warned' = <<>> /\ prompted' = <<>>
       ELSE IF op.kind = "CALLBACK"
       THEN /\ paths' = Inputs /\ recurse' \in BOOLEAN
            /\ warned' = <<>> /\ prompted' = <<>>
       ELSE IF op.kind = "TRASH"
       THEN /\ \E statted \in SUBSET InputSet :
                 /\ paths' = GetExistentPaths(fs, Inputs, statted)
                 /\ warned' = NoFileWarnPaths(fs, Inputs, statted)
            /\ recurse' = FALSE /\ prompted' = <<>>
       ELSE /\ \E statted \in SUBSET InputSet :
                 /\ paths' = GetExistentPaths(fs, Inputs, statted)
                 /\ warned' = NoFileWarnPaths(fs, Inputs, statted)
            /\ \E answer \in PromptAnswers, statted \in SUBSET InputSet :
                 /\ recurse' = CheckRecursion(fs, paths', recurse_default, answer,
                                              statted)
                 /\ prompted' = RecursionPrompts(fs, paths', recurse_default, answer,
                                                 statted)
    /\ pc' = "batch"
    /\ UNCHANGED <<fs0, fs, fdata, op, recurse_default, idx, counter, stack, retv,
                   operate_curr_file, result, events, rets, stops, err_at, ovars, rvars>>

\* how a call run_op_on_dir_recursive(dir, count) on a directory begins:
\* read_dir returns the iterator ("read"), read_dir fails ("read_dir_err"),
\* or dir.is_dir() answers false because the stat failed ("not_dir": the
\* call returns Ok((count, true)) at once, line 59)
DirCalls == {"read", "read_dir_err", "not_dir"}

\* the record of a call on dir that returned Ok((count, true)) at line 59
SkippedRet(dir, count) ==
    [dir |-> dir, count0 |-> count, count |-> count, completed |-> TRUE,
     start |-> Len(events), at |-> Len(events)]

\* recurse_on_paths, a root for which path.is_dir() && recurse holds:
\* run_op_on_dir_recursive(op, path, 0), counter += c.0
RecurseRootDir ==
    /\ pc = "batch" /\ idx <= Len(paths)
    /\ op.kind # "TRASH"
    /\ fs[paths[idx]] = "dir" /\ recurse
    /\ \E how \in DirCalls :
         CASE how = "read" ->
                /\ stack' = <<Frame(paths[idx], 0)>>
                /\ pc' = "dir"
                /\ UNCHANGED <<result, err_at, idx, rets>>
           [] how = "read_dir_err" ->
                /\ Abort("err", paths[idx], "read_dir", Len(events))
                /\ UNCHANGED <<stack, idx, rets>>
           [] how = "not_dir" ->
                /\ idx' = idx + 1
                /\ rets' = Append(rets, SkippedRet(paths[idx], 0))
                /\ UNCHANGED <<stack, pc, result, err_at>>
    /\ UNCHANGED <<fs0, warned, prompted, fs, fdata, op, recurse_default, paths, recurse, counter,
                   retv, operate_curr_file, events, stops, ovars, rvars>>

\* recurse_on_paths, the else branch: op.execute_callbacks(path, false)?,
\* taken when recurse is false or path.is_dir() answers false, which it
\* also does for a directory whose stat fails
RecurseRootSingle ==
    /\ pc = "batch" /\ idx <= Len(paths)
    /\ op.kind # "TRASH"
    /\ \E o \in ExecuteCallbacks(paths[idx]) :
         /\ Effects(paths[idx], FALSE, FALSE, o)
         /\ IF o.res \in {"err", "panic"}
            THEN Abort(o.res, paths[idx], ErrStep(o.x), Len(events) + 2) /\ UNCHANGED idx
            ELSE idx' = idx + 1 /\ UNCHANGED <<pc, result, err_at>>
    /\ UNCHANGED <<fs0, warned, prompted, op, recurse_default, paths, recurse, counter, stack, retv,
                   rets, ovars, rvars>>

\* recurse_on_paths: Ok(counter)
RecurseFinish ==
    /\ pc = "batch" /\ idx > Len(paths)
    /\ op.kind # "TRASH"
    /\ pc' = "done"
    /\ result' = [NoResult EXCEPT !.tag = "ok", !.count = counter,
                                   !.operate = OperateOk(op, counter)]
    /\ UNCHANGED <<fs0, warned, prompted, fs, fdata, op, recurse_default, paths, recurse, idx, counter,
                   stack, retv, operate_curr_file, events, rets, stops, err_at, ovars, rvars>>

\* what TrashOperation::trash returns when delete_all failed on path:
\* OperationError::new(Box::new(e), OPERATION::TRASH, Some(path))
TrashErrResult(path) ==
    [NoResult EXCEPT !.tag = "err", !.file = path,
                     !.site = [path |-> path, step |-> "trash"],
                     !.operate = [tag |-> "err", report |-> -1,
                                  operr |-> OperationErrorNew(
                                      [source |-> "trash", file |-> 0], "TRASH", path)]]

\* TrashOperation::trash, the for loop: trash::delete_all([path])
TrashRoot ==
    /\ pc = "batch" /\ idx <= Len(paths)
    /\ op.kind = "TRASH"
    /\ \E x \in TrashDelete(fs, fdata, paths[idx]) :
         /\ fs' = x.fs
         /\ IF x.rm = "err"
            THEN /\ result' = TrashErrResult(paths[idx])
                 /\ pc' = "done"
                 /\ UNCHANGED idx
            ELSE /\ idx' = idx + 1
                 /\ UNCHANGED <<pc, result>>
    /\ UNCHANGED <<fs0, warned, prompted, fdata, op, recurse_default, paths, recurse, counter,
                   stack, retv, operate_curr_file, events, rets, stops, err_at,
                   ovars, rvars>>

\* TrashOperation::trash: pb.auto_finish(len), Ok(())
TrashFinish ==
    /\ pc = "batch" /\ idx > Len(paths)
    /\ op.kind = "TRASH"
    /\ pc' = "done"
    /\ result' = [NoResult EXCEPT !.tag = "ok",
                                   !.operate = [tag |-> "ok", report |-> Len(paths),
                                                operr |-> NoOperationError]]
    /\ UNCHANGED <<fs0, warned, prompted, fs, fdata, op, recurse_default, paths, recurse, idx,
                   counter, stack, retv, operate_curr_file, events, rets, stops,
                   err_at, ovars, rvars>>

\* run_op_on_dir_recursive, an entry for which path.is_dir() answers false
\* (lines 46-50): not a directory, or a directory whose stat fails
VisitFile ==
    /\ pc = "dir"
    /\ \E e \in Top.todo :
         /\ \E o \in ExecuteCallbacks(e) :
              /\ Effects(e, FALSE, TRUE, o)
              /\ CASE o.res = "true" ->
                        /\ stack' = SetTop(stack, [Top EXCEPT !.todo = @ \ {e},
                                                              !.count = @ + 1])
                        /\ UNCHANGED <<pc, retv, rets, result, err_at>>
                   [] o.res = "false" ->
                        /\ stack' = Pop(stack)
                        /\ retv' = [count |-> Top.count + 1, completed |-> FALSE]
                        /\ rets' = Append(rets, RetOf(Top, Top.count + 1, FALSE,
                                                      Len(events) + 2))
                        /\ pc' = "ret"
                        /\ UNCHANGED <<result, err_at>>
                   [] OTHER ->
                        /\ Abort(o.res, e, ErrStep(o.x), Len(events) + 2)
                        /\ UNCHANGED <<stack, retv, rets>>
    /\ UNCHANGED <<fs0, warned, prompted, op, recurse_default, paths, recurse, idx, counter, ovars, rvars>>

\* run_op_on_dir_recursive, an entry that is a directory: the recursive call
\* run_op_on_dir_recursive(operation, &path, count) (line 43)
VisitSubdir ==
    /\ pc = "dir"
    /\ \E e \in Top.todo :
         /\ fs[e] = "dir"
         /\ \E how \in DirCalls :
              CASE how = "read" ->
                     /\ stack' = Append(SetTop(stack, [Top EXCEPT !.todo = @ \ {e}]),
                                        Frame(e, Top.count))
                     /\ UNCHANGED <<pc, result, err_at, rets>>
                [] how = "read_dir_err" ->
                     /\ Abort("err", e, "read_dir", Len(events))
                     /\ UNCHANGED <<stack, rets>>
                [] how = "not_dir" ->
                     /\ stack' = SetTop(stack, [Top EXCEPT !.todo = @ \ {e}])
                     /\ rets' = Append(rets, SkippedRet(e, Top.count))
                     /\ UNCHANGED <<pc, result, err_at>>
    /\ UNCHANGED <<fs0, warned, prompted, fs, fdata, op, recurse_default, paths, recurse, idx, counter,
                   retv, operate_curr_file, events, stops, ovars, rvars>>

\* run_op_on_dir_recursive: the directory iterator yields an Err (line 40),
\* at any of its calls, the one after the last entry included
VisitEntryErr ==
    /\ pc = "dir"
    /\ Abort("err", Top.dir, "entry", Len(events))
    /\ UNCHANGED <<fs0, warned, prompted, fs, fdata, op, recurse_default, paths, recurse, idx, counter,
                   stack, retv, operate_curr_file, events, rets, stops, ovars, rvars>>

\* the for loop over the entries has ended (line 39)
DirReady(fr) == fr.todo = {}

\* run_op_on_dir_recursive: the directory itself (lines 53-57)
VisitDirItself ==
    /\ pc = "dir"
    /\ DirReady(Top)
    /\ \E o \in ExecuteCallbacks(Top.dir) :
         /\ Effects(Top.dir, TRUE, TRUE, o)
         /\ IF o.res \in {"err", "panic"}
            THEN /\ Abort(o.res, Top.dir, ErrStep(o.x), Len(events) + 2)
                 /\ UNCHANGED <<stack, retv, rets>>
            ELSE /\ stack' = Pop(stack)
                 /\ retv' = [count |-> Top.count + 1, completed |-> (o.res = "true")]
                 /\ rets' = Append(rets, RetOf(Top, Top.count + 1, o.res = "true",
                                               Len(events) + 2))
                 /\ pc' = "ret"
                 /\ UNCHANGED <<result, err_at>>
    /\ UNCHANGED <<fs0, warned, prompted, op, recurse_default, paths, recurse, idx, counter, ovars, rvars>>

\* a caller that ignores the returned flag
StopsCallerMutant(rv) == FALSE

\* the caller's test of the returned flag (line 43: `if !...?.1`)
StopsCaller(rv) == ~rv.completed

\* a call has returned: to the enclosing call (lines 43-45) or to
\* recurse_on_paths (lib/lib.rs:65-66)
ReturnToCaller ==
    /\ pc = "ret"
    /\ IF stack = <<>>
       THEN /\ counter' = counter + retv.count
            /\ idx' = idx + 1
            /\ pc' = "batch"
            /\ UNCHANGED <<stack, retv, rets>>
       ELSE IF StopsCaller(retv)
       THEN /\ stack' = Pop(stack)
            /\ retv' = [count |-> Top.count, completed |-> FALSE]
            /\ rets' = Append(rets, RetOf(Top, Top.count, FALSE, Len(events)))
            /\ UNCHANGED <<counter, idx, pc>>
       ELSE /\ pc' = "dir"
            /\ UNCHANGED <<counter, idx, stack, retv, rets>>
    /\ UNCHANGED <<fs0, warned, prompted, fs, fdata, op, recurse_default, paths, recurse,
                   operate_curr_file, result, events, stops, err_at, ovars, rvars>>

Init == InitTraverse /\ IdleOverwrite /\ IdleRestore

Next ==
    \/ Operate
    \/ RecurseRootDir
    \/ RecurseRootSingle
    \/ RecurseFinish
    \/ TrashRoot
    \/ TrashFinish
    \/ VisitFile
    \/ VisitSubdir
    \/ VisitEntryErr
    \/ VisitDirItself
    \/ ReturnToCaller

Spec == Init /\ [][Next]_vars

(***************************************************************************)
(* SpecOverwrite: one call of overwrite_file on a file filled with 0x01    *)
(* (the unit test's file), or on a directory handle.                       *)
(***************************************************************************)
\* file lengths around the buffer sizes
Lengths == {0, 1, BUF_CAPACITY - 1, BUF_CAPACITY, OW_BUFF_SIZE - 1, OW_BUFF_SIZE,
            OW_BUFF_SIZE + 1, OW_BUFF_SIZE + BUF_CAPACITY, 2 * OW_BUFF_SIZE,
            2 * OW_BUFF_SIZE + 100}

Idle == [st |-> "idle"]

\* the calls followed: a file, a run count, and what the environment does
OverwriteCalls ==
    UNION {{[file |-> fr[1], runs |-> fr[2], oracle |-> o] : o \in Oracles(fr[1], fr[2])}
              : fr \in ({OnesFile(L) : L \in Lengths}
                         \cup {AppendHandle(OnesFile(L)) : L \in Lengths}
                         \cup {DirHandle})
                        \X (0..MaxRuns)}

InitOverwrite ==
    /\ ow_in \in OverwriteCalls
    /\ ow_out = Idle
    /\ IdleTraverse
    /\ IdleRestore

OverwriteCall ==
    /\ ow_out = Idle
    /\ ow_in # Idle
    /\ ow_out' = OverwriteFile(ow_in.file, ow_in.runs, ow_in.oracle)
    /\ UNCHANGED <<ow_in, tvars, rvars>>

NextOverwrite == OverwriteCall

SpecOverwrite == InitOverwrite /\ [][NextOverwrite]_vars


(***************************************************************************)
(* SpecRestore: the restore loop.                                          *)
(***************************************************************************)
InitRestore == FreshRestore /\ IdleTraverse /\ IdleOverwrite

\* operate: get_existent_trash_items; a panic in it unwinds through operate
RestoreResolve ==
    /\ rpc = "start"
    /\ \E r \in get_existent_trash_items(trash, requested) :
         /\ items' = r.items
         /\ rwarned' = r.warned
         /\ init_len' = Len(r.items)
         /\ IF r.panic = "none"
            THEN rpc' = "loop" /\ UNCHANGED rresult
            ELSE rpc' = "done" /\ rresult' = RestoreResult("panic", 0, r.panic, "NONE")
    /\ UNCHANGED <<trash, occupied, requested, snap, spos, len_before_attempt,
                   passes, rlog, all_files, tvars, ovars>>

\* the purge_all calls of a purge of sel of which the first n return Ok
PurgeLog(sel, n) ==
    [i \in 1..Min(n + 1, Len(sel)) |->
        [item |-> sel[i], res |-> IF i <= n THEN "purged" ELSE "panic", pass |-> 0,
         before |-> sel, report |-> <<>>]]

\* what purge(files, all_files) works on: with all_files the list of the
\* trash, or Err(OperationError LIST) when list() fails; otherwise what
\* get_existent_trash_items makes of files
PurgeItems(t, names, all) ==
    IF all
    THEN {[panic |-> "none", items |-> TrashList(t), warned |-> <<>>, err |-> "none"],
          [panic |-> "none", items |-> <<>>, warned |-> <<>>, err |-> "list"]}
    ELSE {r @@ [err |-> "none"] : r \in get_existent_trash_items(t, names)}

\* BasicOperations::purge(files, all_files): the items, then
\* purge_all(vec![file]).unwrap() for each item, then auto_finish. A name
\* requested twice puts its item into the vector twice; purge_all of an
\* item that an earlier call of the loop purged returns Ok or an error, as
\* the platform has it
Purge ==
    /\ rpc = "start"
    /\ \E all \in BOOLEAN :
         /\ all_files' = all
         /\ \E r \in PurgeItems(trash, requested, all) :
              \E n \in 0..Len(r.items) :
                /\ (r.panic # "none" \/ r.err # "none") => n = 0
                /\ items' = r.items
                /\ init_len' = Len(r.items)
                /\ rwarned' = r.warned
                /\ trash' = trash \ {r.items[i] : i \in 1..n}
                /\ rlog' = IF r.panic # "none" \/ r.err # "none" THEN <<>>
                           ELSE PurgeLog(r.items, n)
                /\ rresult' = IF r.panic # "none"
                              THEN RestoreResult("panic", 0, r.panic, "NONE")
                              ELSE IF r.err # "none"
                              THEN RestoreResult("err", 0, r.err, "LIST")
                              ELSE IF n = Len(r.items)
                              THEN RestoreResult("ok", Len(r.items), "none", "NONE")
                              ELSE RestoreResult("panic", 0, "purge_all", "NONE")
    /\ rpc' = "purged"
    /\ UNCHANGED <<occupied, requested, snap, spos, len_before_attempt, passes,
                   tvars, ovars>>

\* operate: the next pass begins; attempt_restore clones files
RestorePass ==
    /\ rpc = "loop"
    /\ passes < MaxPasses
    /\ len_before_attempt' = Len(items)
    /\ snap' = items
    /\ spos' = 1
    /\ passes' = passes + 1
    /\ rpc' = "attempt"
    /\ UNCHANGED <<trash, occupied, requested, items, init_len, rlog, rwarned,
                   rresult, all_files, tvars, ovars>>

\* attempt_restore: one iteration of the for loop
RestoreAttempt ==
    /\ rpc = "attempt"
    /\ spos <= Len(snap)
    /\ \E res \in RestoreAll(trash, occupied, snap[spos]) :
         /\ rlog' = Append(rlog, [item |-> snap[spos], res |-> res, pass |-> passes,
                                   before |-> items,
                                   report |-> CollisionReport(res, snap[spos])])
         /\ CASE res = "ok" ->
                   /\ trash' = trash \ {snap[spos]}
                   /\ occupied' = occupied \cup {ItemTable[snap[spos]].dest}
                   /\ items' = remove_from_vec(items, snap[spos])
                   /\ spos' = spos + 1
                   /\ UNCHANGED <<rpc, rresult>>
              [] res # "ok" /\ handle_collision(res, items, snap[spos]).ok ->
                   /\ items' = handle_collision(res, items, snap[spos]).files
                   /\ rpc' = "loop"
                   /\ UNCHANGED <<trash, occupied, spos, rresult>>
              [] OTHER ->
                   /\ rresult' = RestoreResult("err", 0,
                                      handle_collision(res, items, snap[spos]).err,
                                      "RESTORE")
                   /\ items' = handle_collision(res, items, snap[spos]).files
                   /\ rpc' = "done"
                   /\ UNCHANGED <<trash, occupied, spos>>
    /\ UNCHANGED <<requested, snap, len_before_attempt, passes, init_len, rwarned,
                   all_files, tvars, ovars>>

\* The file system restore_all looks at is not the program's alone: while
\* operate runs, before a pass, within it or between two, something else
\* removes the file at an occupied original path
OutsideRemoval ==
    /\ rpc \in {"start", "loop", "attempt"}
    /\ \E d \in occupied : occupied' = occupied \ {d}
    /\ UNCHANGED <<trash, requested, items, rpc, snap, spos, len_before_attempt,
                   passes, init_len, rlog, rwarned, rresult, all_files, tvars, ovars>>

\* attempt_restore returns Ok(true): auto_finish(len_before_attempt), Ok(())
RestoreFinish ==
    /\ rpc = "attempt"
    /\ spos > Len(snap)
    /\ rresult' = RestoreResult("ok", len_before_attempt, "none", "NONE")
    /\ rpc' = "done"
    /\ UNCHANGED <<trash, occupied, requested, items, snap, spos, len_before_attempt,
                   passes, init_len, rlog, rwarned, all_files, tvars, ovars>>

NextRestore ==
    \/ RestoreResolve
    \/ Purge
    \/ RestorePass
    \/ RestoreAttempt
    \/ OutsideRemoval
    \/ RestoreFinish

SpecRestore == InitRestore /\ [][NextRestore]_vars

(***************************************************************************)
(* The claims about the traversal (Spec).                                  *)
(***************************************************************************)
Acts(lo, hi) == {i \in lo..hi : events[i].kind = "act"}

\* C1: post-order.  Whenever cb is invoked on a directory D by
\* run_op_on_dir_recursive, cb was invoked before on every file directly in
\* D, and the call for every subdirectory of D has returned completed.
C1_PostOrder ==
    \A i \in 1..Len(events) :
        (events[i].kind = "act" /\ events[i].is_dir) =>
            \A c \in Children(events[i].path) :
                /\ fs0[c] = "file" =>
                     \E j \in 1..(i - 1) : events[j].kind = "act" /\ events[j].path = c
                /\ fs0[c] = "dir" =>
                     \E k \in 1..Len(rets) :
                        rets[k].dir = c /\ rets[k].completed /\ rets[k].at < i

\* C2: every cb call on a path comes right after the display_cb call on the
\* same path.
C2_NotifyBeforeAct ==
    \A i \in 1..Len(events) :
        events[i].kind = "act" =>
            /\ i > 1
            /\ events[i - 1].kind = "notify"
            /\ events[i - 1].path = events[i].path

\* entries were processed both by run_op_on_dir_recursive and as a single root
C2_Witness ==
    /\ \E i \in 1..Len(events) : events[i].kind = "act" /\ events[i].is_dir
    /\ \E i \in 1..Len(events) : events[i].kind = "act" /\ Parent(events[i].path) = 0
                                 /\ ~events[i].is_dir

\* C3: once execute_callbacks has returned Ok(false) inside
\* run_op_on_dir_recursive, nothing else below that root gets a display_cb
\* or cb call, every call that was open returns completed = false, and so
\* does the call for the root.
C3_EarlyAbort ==
    \A s \in 1..Len(stops) :
        stops[s].in_dir =>
            /\ \A i \in (stops[s].at + 1)..Len(events) :
                  RootOf(events[i].path) # stops[s].root
            /\ \A k \in 1..Len(rets) :
                  (rets[k].start < stops[s].at /\ rets[k].at >= stops[s].at)
                      => ~rets[k].completed
            /\ (stack = <<>> /\ pc # "ret") =>
                  \E k \in 1..Len(rets) :
                      rets[k].dir = stops[s].root /\ ~rets[k].completed

\* a stop two levels down, with an entry of the root left unvisited, after
\* which the call for the root has returned
C3_Witness ==
    \E s \in 1..Len(stops) :
        /\ stops[s].in_dir
        /\ Parent(stops[s].path) # 0 /\ Parent(Parent(stops[s].path)) # 0
        /\ \E n \in Subtree(stops[s].root) :
              fs0[n] # "none" /\ \A i \in 1..Len(events) : events[i].path # n
        /\ \E k \in 1..Len(rets) : rets[k].dir = stops[s].root /\ ~rets[k].completed
        /\ pc = "done"

RootIndex(n) == CHOOSE i \in 1..Len(paths) : paths[i] = RootOf(n)

\* C4: fail-fast.  Once read_dir, the directory iterator or cb has yielded an
\* Err, recurse_on_paths has returned that Err: no display_cb or cb call
\* follows, on the root at hand or on a later root.
C4_FailFast ==
    err_at >= 0 =>
        /\ pc = "done"
        /\ result.tag = "err"
        /\ Len(events) = err_at
        /\ \A i \in 1..Len(events) : RootIndex(events[i].path) <= idx

\* an Err below the first of two roots, with entries of its directory left
C4_Witness ==
    /\ err_at > 0
    /\ Len(paths) = 2 /\ idx = 1
    /\ stack # <<>> /\ Top.todo # {}
    /\ fs[paths[2]] # "none"

ShredsFiles == op.kind = "SHRED" \/ (op.kind = "SEARCH" /\ op.sop = "s")

\* C6: shred fails before it destroys.  In a shred of a file the removal is
\* reached only if the open and overwrite_file both returned Ok; if either
\* failed the file is still there, and it is gone only if the removal ran.
C6_ShredFailsFirst ==
    ShredsFiles =>
        \A i \in 1..Len(events) :
            (events[i].kind = "act" /\ fs0[events[i].path] = "file") =>
                /\ events[i].rm # "skip" =>
                      (events[i].open = "ok" /\ events[i].ow = "ok")
                /\ (events[i].open = "err" \/ events[i].ow \in {"err", "panic"})
                      => fs[events[i].path] = "file"
                /\ events[i].rm # "ok" => fs[events[i].path] = "file"

\* one file was shredded and removed, and the overwrite of another failed
C6_Witness ==
    /\ ShredsFiles
    /\ \E i \in 1..Len(events) : events[i].kind = "act" /\ events[i].ow = "ok"
                                 /\ events[i].rm = "ok"
    /\ \E i \in 1..Len(events) : events[i].kind = "act" /\ events[i].ow = "err"
                                 /\ fs[events[i].path] = "file"

\* C20: in every shred of a file, the handle opened for the overwrite is
\* closed when remove_file_or_empty_dir runs, and when cb is left without it.
C20_HandleClosed ==
    ShredsFiles =>
        \A i \in 1..Len(events) :
            (events[i].kind = "act" /\ events[i].open = "ok") =>
                events[i].handle = "closed"

\* C10: the count a call of run_op_on_dir_recursive returns is its
\* running_count plus the number of cb calls made during the call.
C10_CountIsProcessed ==
    \A k \in 1..Len(rets) :
        rets[k].count = rets[k].count0
                        + Cardinality(Acts(rets[k].start + 1, rets[k].at))

\* C11: batch count.  When recurse_on_paths has returned Ok(counter), counter
\* is the number of cb calls made over all roots, single-file roots included.
C11_BatchCount ==
    (pc = "done" /\ result.tag = "ok") =>
        result.count = Cardinality(Acts(1, Len(events)))

\* C12: early abort across the batch.  Once execute_callbacks has returned
\* Ok(false) for an entry of a root, no entry of a later root gets a
\* display_cb or cb call.
C12_AbortAcrossBatch ==
    \A s \in 1..Len(stops) :
        \A i \in (stops[s].at + 1)..Len(events) :
            RootIndex(events[i].path) <= RootIndex(stops[s].path)

\* C13: when a Delete or Shred batch has ended with an Err, a count of the
\* entries processed has been printed.
C13_ProgressReported ==
    (result.tag = "err" /\ op.kind \in {"DELETE", "SHRED"}) =>
        result.operate.report >= 0

LastEvent == events[Len(events)]
ActFailed == /\ Len(events) > 0 /\ LastEvent.kind = "act"
             /\ (LastEvent.open = "err" \/ LastEvent.ow = "err" \/ LastEvent.rm = "err")

\* C14: error context.  The OperationError a Delete or Shred returns names the
\* entry whose cb failed (the directory whose enumeration failed), with the
\* io::Error of the step that failed: the FileErr made where it failed.
C14_ErrorContext ==
    (result.tag = "err" /\ op.kind \in {"DELETE", "SHRED"}) =>
        /\ result.operate.tag = "err"
        /\ result.operate.operr.file = result.site.path
        /\ result.operate.operr.err =
              [source |-> result.site.step, file |-> result.site.path]
        /\ result.operate.operr.operation = op.kind
        /\ IF ActFailed
           THEN /\ result.site.path = LastEvent.path
                /\ result.site.step =
                      (IF LastEvent.open = "err" THEN "open"
                       ELSE IF LastEvent.ow = "err" THEN "overwrite" ELSE "remove")
           ELSE /\ result.site.step \in {"read_dir", "entry"}
                /\ fs0[result.site.path] = "dir"

\* the overwrite of a file two directories below a root failed in a Shred
C14_Witness ==
    /\ result.tag = "err" /\ op.kind = "SHRED"
    /\ ActFailed /\ LastEvent.ow = "err"
    /\ Parent(LastEvent.path) # 0 /\ Parent(Parent(LastEvent.path)) # 0
    /\ result.operate.operr.file = LastEvent.path


(***************************************************************************)
(* The claims about overwrite_file (SpecOverwrite).                        *)
(***************************************************************************)
\* C5: overwrite correctness.  When overwrite_file has returned Ok for a
\* regular file of length L and run_count >= 1, the file still has length L
\* and every byte of it is 0x00.
C5_OverwriteZeroes ==
    (ow_out.st = "ok" /\ ~ow_in.file.isdir /\ ow_in.runs >= 1) =>
        (ow_out.len = ow_in.file.len /\ ow_out.nz = {})

Writes == {"write_all", "flush", "direct"}

\* C15: overwrite bounds.  Every write of overwrite_file, by the writer or to
\* the file, starts and ends within the original length L; a write_all of a
\* full buffer is made only while at least a buffer is left, any other
\* write_all is exactly what is left; the length of the file stays L.
C15_OverwriteBounds ==
    (ow_out # Idle /\ ~ow_in.file.isdir) =>
        /\ ow_out.len = ow_in.file.len
        /\ \A i \in 1..Len(ow_out.log) :
              ow_out.log[i].how \in Writes =>
                 /\ ow_out.log[i].off <= ow_in.file.len
                 /\ ow_out.log[i].off + ow_out.log[i].n <= ow_in.file.len
                 /\ ow_out.log[i].how = "write_all" =>
                       IF ow_in.file.len - ow_out.log[i].off >= OW_BUFF_SIZE
                       THEN ow_out.log[i].n = OW_BUFF_SIZE
                       ELSE ow_out.log[i].n = ow_in.file.len - ow_out.log[i].off

\* C16: overwrite_file on a directory handle makes no seek and no write,
\* leaves everything as it was, and returns Ok when the two metadata calls do.
C16_DirNoOp ==
    (ow_out # Idle /\ ow_in.file.isdir) =>
        /\ ow_out.log = <<>>
        /\ ow_out.k <= 2
        /\ ow_out.nz = ow_in.file.nz /\ ow_out.len = ow_in.file.len
        /\ ow_out.st \in {"ok", "err"}
        /\ ow_in.oracle.failAt \notin {1, 2} => ow_out.st = "ok"

\* a directory handle, passes asked for, Ok returned
C16_Witness ==
    /\ ow_out # Idle /\ ow_in.file.isdir /\ ow_in.runs >= 1 /\ ow_out.st = "ok"

\* C17: overwrite_file with runs = 0 makes no write, leaves every byte and the
\* length as they were, and returns Ok when the two metadata calls do.
C17_ZeroRuns ==
    (ow_out # Idle /\ ow_in.runs = 0) =>
        /\ ow_out.log = <<>>
        /\ ow_out.nz = ow_in.file.nz /\ ow_out.len = ow_in.file.len
        /\ ow_out.st \in {"ok", "err"}
        /\ ow_in.oracle.failAt \notin {1, 2} => ow_out.st = "ok"

\* a regular file that is not empty, no pass asked for, Ok returned
C17_Witness ==
    /\ ow_out # Idle /\ ~ow_in.file.isdir /\ ow_in.file.len > 0
    /\ ow_in.runs = 0 /\ ow_out.st = "ok" /\ ow_out.nz # {}

RECURSIVE Bytes(_, _, _)
\* the bytes of the calls of the kinds `hows` among the first i of the log
Bytes(log, hows, i) ==
    IF i = 0 THEN 0
    ELSE Bytes(log, hows, i - 1) + (IF log[i].how \in hows THEN log[i].n ELSE 0)

\* C18: every write_all of a pass comes after the seek to offset 0 of that
\* pass, and when that seek is made every byte handed to the writer before
\* has been written to the file.
C18_FlushBetweenPasses ==
    (ow_out # Idle /\ ~ow_in.file.isdir) =>
        \A i \in 1..Len(ow_out.log) :
            /\ ow_out.log[i].how = "seek_start" =>
                  /\ ow_out.log[i].off = 0
                  /\ ow_out.log[i].buf = 0
                  /\ Bytes(ow_out.log, {"flush", "direct"}, i)
                        = Bytes(ow_out.log, {"write_all"}, i)
            /\ ow_out.log[i].how = "write_all" =>
                  \E j \in 1..(i - 1) :
                      /\ ow_out.log[j].how = "seek_start"
                      /\ ow_out.log[j].pass = ow_out.log[i].pass
                      /\ \A m \in (j + 1)..(i - 1) :
                            ow_out.log[m].how = "write_all" => ow_out.log[m].pass = ow_out.log[i].pass

\* the bytes of the first pass were still buffered when it ended, and the
\* second pass wrote
C18_Witness ==
    /\ ow_out # Idle /\ ow_out.st = "ok" /\ ow_in.runs = 2
    /\ \E i \in 1..Len(ow_out.log) :
          /\ ow_out.log[i].how = "seek_start" /\ ow_out.log[i].pass = 2
          /\ ow_out.log[i - 1].how = "flush" /\ ow_out.log[i - 1].n > 0
          /\ \E j \in (i + 1)..Len(ow_out.log) :
                ow_out.log[j].how = "write_all" /\ ow_out.log[j].n > 0

\* C19: when a seek, a write or a flush of overwrite_file has failed,
\* overwrite_file has returned that error: not Ok, and no panic.
C19_ErrorsReturned ==
    (ow_out # Idle /\ ~ow_in.file.isdir
       /\ ow_in.oracle.failAt >= 3 /\ ow_in.oracle.failAt <= ow_out.k) =>
        ow_out.st = "err"

(***************************************************************************)
(* The claims about the restore loop (SpecRestore).                        *)
(***************************************************************************)
\* C7: restore termination.  operate makes at most as many passes as there
\* were pending items before the first pass (one pass when there were none).
C7_RestoreTerminates == passes <= Max(init_len, 1)

\* C8: after a restore of an item collided, the item is no longer pending
\* and is never attempted again.
C8_CollisionRemovesAll ==
    \A i \in 1..Len(rlog) :
        rlog[i].res = "collision" =>
            /\ count_occurences(items, rlog[i].item) = 0
            /\ \A j \in (i + 1)..Len(rlog) : rlog[j].item # rlog[i].item

\* C9: a pass that did not end the loop (attempt_restore returned Ok(false))
\* has left fewer items pending than there were when it began.
C9_PendingShrinks ==
    (rpc = "loop" /\ passes >= 1) => Len(items) < len_before_attempt

(***************************************************************************)
(* Further claims about the batch (Spec).                                  *)
(***************************************************************************)
\* C21: in a recursive Delete or Shred with no error and no stop, a
\* directory has no entry left when its own callbacks are about to run, and
\* once its call has returned completed, it and everything below it are gone.
C21_TreeRemoved ==
    op.kind \in {"DELETE", "SHRED"} =>
        /\ (pc = "dir" /\ DirReady(Top) /\ stops = <<>>) => ReadDir(fs, Top.dir) = {}
        /\ \A k \in 1..Len(rets) :
               rets[k].completed => \A n \in Subtree(rets[k].dir) : fs[n] = "none"

\* run_op_single was called by the cb of the act event e
Ran(e) == e.open # "skip" \/ e.rm # "skip"

\* C22: a search runs its operation on a path only when the display_cb of
\* that same path found a match and the prompt answered "act on it"; the
\* flag operate_curr_file is false again after every cb that returned, and
\* when it is left set (run_op_single panicked) nothing runs after that cb.
C22_ActsOnConfirmed ==
    op.kind = "SEARCH" =>
        /\ operate_curr_file =>
              /\ pc = "done" /\ result.tag = "panic"
              /\ events # <<>>
              /\ events[Len(events)].kind = "act"
              /\ events[Len(events)].res = "panic"
              /\ Ran(events[Len(events)])
        /\ \A i \in 1..Len(events) :
               (events[i].kind = "act" /\ Ran(events[i])) =>
                   /\ i > 1
                   /\ events[i - 1].kind = "notify"
                   /\ events[i - 1].path = events[i].path
                   /\ events[i - 1].sel = "act"
                   /\ levenshtein(Name(events[i].path), op.target) <= 1

\* the operation ran on a confirmed match, and a later match that was not
\* confirmed and an entry that did not match were left alone
C22_Witness ==
    /\ op.kind = "SEARCH"
    /\ \E i, j, k \in 1..Len(events) :
         /\ i < j /\ i < k
         /\ events[i].kind = "act" /\ Ran(events[i])
         /\ events[j].kind = "act" /\ ~Ran(events[j]) /\ events[j - 1].sel = "skip"
         /\ events[k].kind = "act" /\ ~Ran(events[k]) /\ events[k - 1].sel = "none"

\* C23: when the operation a search runs on a confirmed entry fails, the
\* traversal ends there and operate returns the error with that entry's path.
C23_SearchErrorPropagates ==
    op.kind = "SEARCH" =>
        \A i \in 1..Len(events) :
            (events[i].kind = "act" /\ Failed(events[i])) =>
                /\ i = Len(events)
                /\ pc = "done"
                /\ result.tag = "err"
                /\ result.operate.tag = "err"
                /\ result.operate.operr.file = events[i].path

(***************************************************************************)
(* Further claims about restore and purge (SpecRestore).                   *)
(***************************************************************************)
\* the trash as operate found it: what is there now and what has left it
Trash0 == trash \cup {rlog[i].item : i \in {j \in 1..Len(rlog) :
                                              rlog[j].res \in {"ok", "purged"}}}

\* the requested names that had an item in the trash, in requested order
Resolvable == SelectSeq(requested, LAMBDA n : \E i \in Trash0 : ItemTable[i].name = n)

\* get_existent_trash_items returned its vector: neither the listing of the
\* trash nor the selection prompt panicked in it
Resolved ==
    /\ rpc \in {"loop", "attempt", "done", "purged"}
    /\ ~(rresult.tag = "panic" /\ rresult.err \in {"list", "prompt"})

\* C24: restore and purge of named items (not purge of all files) warn once
\* about each requested name that has no item in the trash and go on: once
\* the names are resolved the working set holds one item for each other
\* name, in the requested order, and the missing names alone do not make
\* the operation fail. A warning is only ever about a missing name.
C24_MissingNamesDropped ==
    /\ \A k \in 1..Len(rwarned) :
           \A i \in Trash0 : ItemTable[i].name # rwarned[k]
    /\ (Resolved /\ ~all_files) =>
        /\ rwarned = SelectSeq(requested,
                               LAMBDA n : \A i \in Trash0 : ItemTable[i].name # n)
        /\ ((rpc = "loop" /\ passes = 0) \/ rpc = "purged") =>
              /\ Len(items) = Len(Resolvable)
              /\ \A k \in 1..Len(items) :
                     items[k] \in Trash0 /\ ItemTable[items[k]].name = Resolvable[k]
              /\ rresult.tag # "err"
              /\ (rpc = "purged" /\ \A k \in 1..Len(rlog) : rlog[k].res = "purged") =>
                     (rresult.tag = "ok" /\ rresult.count = Len(items))

\* a missing name was requested before a name that has an item, and the
\* item was resolved
C24_Witness ==
    /\ ((rpc = "loop" /\ passes = 0) \/ (rpc = "purged" /\ rresult.tag = "ok"))
    /\ Len(requested) = 2
    /\ rwarned = <<requested[1]>>
    /\ Len(items) = 1 /\ ItemTable[items[1]].name = requested[2]

\* C25: a restore_all that fails with anything but a collision ends the
\* restore: it is the last attempt, operate returns that error, and the
\* pending items are those there were before the attempt.
C25_OtherErrorAborts ==
    \A i \in 1..Len(rlog) :
        rlog[i].res = "other" =>
            /\ i = Len(rlog)
            /\ rpc = "done"
            /\ rresult.tag = "err" /\ rresult.err = "other"
            /\ items = rlog[i].before

\* the first of two different pending items failed; operate returned the
\* error, the second was never attempted and both are still pending
C25_Witness ==
    /\ rpc = "done" /\ rresult.tag = "err"
    /\ Len(rlog) = 1 /\ rlog[1].res = "other"
    /\ Len(items) = 2 /\ items[1] # items[2]
    /\ rlog[1].item = items[1]
    /\ {items[1], items[2]} \subseteq trash

\* C26: every restore attempt that collides with an occupied destination
\* reports the conflicting destination path, so a restore whose attempts all
\* collide has a non-empty conflict report.
C26_CollisionReported ==
    \A i \in 1..Len(rlog) :
        rlog[i].res = "collision" =>
            rlog[i].report = <<ItemTable[rlog[i].item].dest>>

\* a holds no item more often than b does
SubMultiset(a, b) ==
    \A x \in ItemIds : count_occurences(a, x) <= count_occurences(b, x)

\* C27: the pending items of a restore never grow: at each attempt they are
\* a sub-multiset of those at the attempt before, beginning with the items
\* resolved before the first pass, and so are the items pending now; an item
\* that has left is not pending again.
C27_PendingNeverGrows ==
    /\ rpc \in {"loop", "attempt", "done"} => Len(items) <= init_len
    /\ \A i \in 1..Len(rlog) :
         /\ Len(rlog[i].before) <= init_len
         /\ SubMultiset(items, rlog[i].before)
         /\ \A j \in 1..(i - 1) : SubMultiset(rlog[i].before, rlog[j].before)
         /\ (rlog[i].res = "ok" /\ i < Len(rlog)) =>
                count_occurences(rlog[i + 1].before, rlog[i].item) = 0

\* one item was restored in the first pass, the other collided, and a later
\* pass ran on what was left
C27_Witness ==
    /\ init_len = 2 /\ passes >= 2 /\ Len(rlog) >= 3
    /\ rlog[1].res = "ok" /\ rlog[2].res = "collision"
    /\ rlog[3].pass = 2
    /\ items = <<rlog[2].item>>

(***************************************************************************)
(* Further claims about the batch (Spec), continued.                       *)
(***************************************************************************)
\* C28: trash, delete and shred warn once about each input that does not
\* exist and hand on the existing inputs in their order; this is done when
\* the first entry is processed, and no missing input makes the batch fail.
C28_MissingPathsDropped ==
    (op.kind \in {"TRASH", "DELETE", "SHRED"} /\ pc # "start") =>
        /\ paths = SelectSeq(Inputs, LAMBDA q : fs0[q] # "none")
        /\ warned = SelectSeq(Inputs, LAMBDA q : fs0[q] = "none")
        /\ result.tag = "err" => fs0[RootOf(result.file)] # "none"
        /\ (pc = "batch" /\ idx = 1) => (fs = fs0 /\ events = <<>> /\ result.tag = "none")

\* the recursion prompt was shown for a directory root and the user answered
\* no (operations.rs:462-463, output.rs:199-206)
RecursionDeclined ==
    /\ op.kind \in {"DELETE", "SHRED"} /\ pc # "start"
    /\ prompted # <<>>
    /\ prompted[1].answer = "no"
    /\ fs0[prompted[1].path] = "dir"

\* C29: after the user declined the recursion prompt shown for a directory
\* root, no callback runs on that root or below it, no error comes from it,
\* and it is left as it was.
C29_DeclinedRootSkipped ==
    RecursionDeclined =>
        /\ \A i \in 1..Len(events) : RootOf(events[i].path) # prompted[1].path
        /\ result.tag = "err" => RootOf(result.file) # prompted[1].path
        /\ \A n \in Subtree(prompted[1].path) : fs[n] = fs0[n]

\* main (main.rs:100-103) with what run_operation_from_args returned:
\* Ok(_) => {}, Err(e) => eprintln!("{e}"), and main returns in both arms; a
\* panic unwinds out of main.  [stderr, status]
main(r) ==
    [stderr |-> r.tag \in {"err", "panic"},
     status |-> IF r.tag = "panic" THEN 101 ELSE 0]

\* C30: when the operation returned an error, the process writes it to
\* standard error and exits with a non-zero status; status zero means the
\* operation succeeded.
C30_ExitStatus ==
    (pc = "done" /\ op.kind # "CALLBACK") =>
        /\ result.operate.tag = "err" =>
              (main(result.operate).stderr /\ main(result.operate).status # 0)
        /\ main(result.operate).status = 0 => result.operate.tag = "ok"

(***************************************************************************)
(* Further claims about restore (SpecRestore), continued.                  *)
(***************************************************************************)
\* the restore_all calls that returned Ok
Restored == {i \in 1..Len(rlog) : rlog[i].res = "ok"}

\* C31: the count a successful restore reports is the number of items
\* restored over all its passes.
C31_RestoreCount ==
    (rpc = "done" /\ rresult.tag = "ok") => rresult.count = Cardinality(Restored)

\* what select_from_trash must return for the trash t and the name n
SelectsExactly(sel, t, n) ==
    /\ sel.some <=> (\E i \in t : ItemTable[i].name = n)
    /\ ~sel.some => sel.items = <<>>
    /\ sel.some =>
          /\ Len(sel.items) >= 1
          /\ {sel.items[k] : k \in 1..Len(sel.items)} = {i \in t : ItemTable[i].name = n}
          /\ Len(sel.items) = Cardinality({i \in t : ItemTable[i].name = n})

\* C32: select_from_trash(name) is None exactly when no item in the trash
\* has that name; otherwise it is Some of all the items of that name, each
\* once, and of no other item, so never Some of an empty list.
C32_SelectFromTrash ==
    \A n \in ItemNames :
        /\ ~select_from_trash(trash, n, TRUE).panic
        /\ SelectsExactly(select_from_trash(trash, n, TRUE), trash, n)
        /\ select_from_trash(trash, n, FALSE) =
              [panic |-> TRUE, some |-> FALSE, items |-> <<>>]

\* a restore was asked for a name two items share and for a name no item
\* has: the first selection had two candidates, the second was None
C32_Witness ==
    /\ rpc = "loop" /\ passes = 0
    /\ requested = <<"f", "h">>
    /\ Len(select_from_trash(trash, "f", TRUE).items) = 2
    /\ ~select_from_trash(trash, "h", TRUE).some
    /\ Len(select_from_trash(trash, "g", TRUE).items) = 1
    /\ Len(items) = 1 /\ rwarned = <<"h">>

(***************************************************************************)
(* Further claims about the callbacks (Spec).                              *)
(***************************************************************************)
\* execute_callbacks returned Ok(false) with the act event i
StoppedAt(i) == \E s \in 1..Len(stops) : stops[s].at = i

\* C33: execute_callbacks calls cb on the entry whatever display_cb returned
\* and returns Ok(display_cb result /\ cb result): an entry confirmed with
\* "act now, do not continue" is acted on, and after an Ok(false) nothing
\* else of that root is processed. (A display_cb that did not return, its
\* prompt having failed, is the last call of the run, which ends in a panic.)
C33_ActAlwaysRuns ==
    \A i \in 1..Len(events) :
        events[i].kind = "notify" =>
          IF events[i].res = "panic"
          THEN i = Len(events) /\ result.tag = "panic"
               /\ events[i].sel \in DisplayPanics
          ELSE
            /\ i < Len(events)
            /\ events[i + 1].kind = "act" /\ events[i + 1].path = events[i].path
            /\ StoppedAt(i + 1) <=>
                  /\ events[i + 1].res \in {"true", "false"}
                  /\ ~(events[i].res = "true" /\ events[i + 1].res = "true")
            /\ (op.kind = "SEARCH" /\ events[i].sel = "act") => Ran(events[i + 1])
            /\ StoppedAt(i + 1) =>
                  \A j \in (i + 2)..Len(events) :
                      RootOf(events[j].path) # RootOf(events[i].path)

\* a search: the prompt for a file said "act, do not continue"; the file
\* was removed, and another entry of the directory was never visited
C33_Witness ==
    /\ op.kind = "SEARCH" /\ pc = "done" /\ result.tag = "ok"
    /\ Len(events) = 2
    /\ events[1].sel = "act" /\ events[1].res = "false"
    /\ events[2].rm = "ok" /\ fs[events[2].path] = "none"
    /\ StoppedAt(2)
    /\ \E n \in Subtree(1) : n # events[2].path /\ fs[n] = "file"

\* C34: check_recursion asks at most once per batch and not at all when
\* recurse_default is set; with no directory among the roots the result is
\* the flag; the one answer (a failed prompt counts as no) is the setting
\* every directory root of the batch is handled with.
C34_OnePrompt ==
    (op.kind \in {"DELETE", "SHRED"} /\ pc # "start") =>
        /\ Len(prompted) <= 1
        /\ recurse_default => (prompted = <<>> /\ recurse)
        /\ (\A i \in 1..Len(paths) : fs0[paths[i]] # "dir") =>
              (prompted = <<>> /\ recurse = recurse_default)
        /\ prompted # <<>> => recurse = (prompted[1].answer = "yes")
        /\ \A i \in 1..Len(events) :
               (Parent(events[i].path) = 0 /\ fs0[events[i].path] = "dir") =>
                   events[i].is_dir = recurse
        /\ \A i \in 1..Len(events) : Parent(events[i].path) # 0 => recurse

(***************************************************************************)
(* Further claims about overwrite_file (SpecOverwrite).                    *)
(***************************************************************************)
\* the write_all calls of pass p, by their place in the log
WriteAlls(log, p) ==
    {i \in 1..Len(log) : log[i].how = "write_all" /\ log[i].pass = p}

\* C35: overwrite_file returns for every length and run count: within a
\* pass each write_all but the last writes one buffer and the next begins a
\* buffer further on, a shorter write_all ends the pass, and a pass makes at
\* most L div OW_BUFF_SIZE + 1 of them (exactly that many when it ends Ok).
C35_OverwriteTerminates ==
    (ow_out # Idle /\ ~ow_in.file.isdir) =>
        /\ ow_out.st \in {"ok", "err", "panic"}
        /\ ow_out.pass <= ow_in.runs
        /\ \A p \in 1..ow_in.runs :
              /\ Cardinality(WriteAlls(ow_out.log, p))
                    <= (ow_in.file.len \div OW_BUFF_SIZE) + 1
              /\ ow_out.st = "ok" =>
                    Cardinality(WriteAlls(ow_out.log, p))
                       = (ow_in.file.len \div OW_BUFF_SIZE) + 1
              /\ \A i, j \in WriteAlls(ow_out.log, p) :
                    i < j => /\ ow_out.log[i].n = OW_BUFF_SIZE
                             /\ ow_out.log[j].off >= ow_out.log[i].off + OW_BUFF_SIZE

(***************************************************************************)
(* The vector helpers of lib/util.rs (SpecRestore).                        *)
(***************************************************************************)
\* the vectors of a restore and their concatenations
Vecs == {items, snap, items \o snap, snap \o items}

\* r is v without its first element equal to x (v itself when there is none)
IsWithoutFirst(r, v, x) ==
    IF \A i \in 1..Len(v) : v[i] # x
    THEN r = v
    ELSE /\ Len(r) = Len(v) - 1
         /\ count_occurences(r, x) = count_occurences(v, x) - 1
         /\ \E p \in 1..Len(v) :
              /\ v[p] = x /\ \A j \in 1..(p - 1) : v[j] # x
              /\ \A j \in 1..(p - 1) : r[j] = v[j]
              /\ \A j \in p..Len(r) : r[j] = v[j + 1]

\* r is v without its elements equal to x, the others in their order
IsWithoutAll(r, v, x) ==
    /\ Len(r) = Len(v) - count_occurences(v, x)
    /\ \A k \in 1..Len(r) :
         /\ r[k] # x
         /\ \E i \in 1..Len(v) :
              /\ v[i] = r[k]
              /\ Cardinality({j \in 1..i : v[j] # x}) = k

\* C36: remove_first_from_vec takes out the first element equal to the
\* needle and nothing else (nothing at all when there is none), and
\* remove_from_vec takes out every element equal to the needle; both keep
\* the other elements in their order.
C36_VecHelpers ==
    \A v \in Vecs : \A x \in ItemIds :
        /\ IsWithoutFirst(remove_first_from_vec(v, x), v, x)
        /\ IsWithoutAll(remove_from_vec(v, x), v, x)

\* attempt_restore has taken a restored item out with remove_from_vec, and
\* in one of the vectors the needle stands before and after another item:
\* removing the first leaves the other two, removing all leaves the one
C36_Witness ==
    /\ \E i \in 1..Len(rlog) :
         rlog[i].res = "ok" /\ count_occurences(items, rlog[i].item) = 0
    /\ \E v \in Vecs : \E x \in ItemIds :
         /\ Len(v) = 3 /\ v[1] = x /\ v[2] # x /\ v[3] = x
         /\ remove_first_from_vec(v, x) = <<v[2], x>>
         /\ remove_from_vec(v, x) = <<v[2]>>

====
